---- MODULE Spec2Model ----
(***************************************************************************)
(* Host-function registration and dispatch bridge of wasmedge-sys:         *)
(* the closure registries HOST_FUNCS / ASYNC_HOST_FUNCS, the footprint     *)
(* table HOST_FUNC_FOOTPRINTS, the trampolines wrap_fn / wrap_async_fn,    *)
(* the Function handle (create, clone, drop) and the part of ImportModule  *)
(* and Instance that adds and looks up functions.                          *)
(*                                                                         *)
(* Every thread runs one operation at a time; an operation is split into   *)
(* steps at the points where it takes or releases a lock, so that the      *)
(* interleavings of the steps are the interleavings of the threads.        *)
(* parking_lot's RwLock is modelled as a plain readers-writer lock: a      *)
(* reader is blocked by a writer that holds the lock, not by one that      *)
(* waits for it.                                                           *)
(***************************************************************************)
EXTENDS Integers, Sequences, FiniteSets, TLC

\* ------------------------------------------------------------------ bounds
NumThreads == 2
MaxKey == 2
MaxAddr == 2
MaxHandles == 3
MaxRet == 2
MaxCode == 2
MaxNames == 1
MaxParams == 4

\* ------------------------------------------------------ program constants
\* ffi::WasmEdge_ResultGen(ffi::WasmEdge_ErrCategory_WASM, 5)
HostFuncNotFound == 5
\* Err(HostFuncError::Runtime(0x07))
AsyncDriverFailed == 7

Threads == 1..NumThreads
Keys == 1..MaxKey
Addrs == 1..MaxAddr
Names == 1..MaxNames
Codes == 0..MaxCode
RetLens == 0..MaxRet
Registries == {"sync", "async"}
ArcIds == 1..MaxHandles
DataIds == 1..MaxHandles
\* A boxed closure is told from the closures that held its key before it by
\* a generation: the Arc clones of dispatching threads can keep that many
\* removed closures of one key alive.
Gens == 1..(NumThreads + 1)

\* the content of a return slot the trampoline has not written
Untouched == -1

\* --------------------------------------------------------- host closures
\* What a boxed closure does when it is called; the closures of the tests:
\* real_add, extern_term (a constant list), extern_fail (a user error).
NoFn == [tag |-> "none", vals |-> <<>>, code |-> 0]
Ret(vs) == [tag |-> "ret", vals |-> vs, code |-> 0]
UserErr(c) == [tag |-> "user", vals |-> <<>>, code |-> c]
RuntimeErr(c) == [tag |-> "runtime", vals |-> <<>>, code |-> c]
RealAdd == [tag |-> "add", vals |-> <<>>, code |-> 0]
\* func of test_func_create_host_func_in_host_func: its body creates a host
\* function, calls it and drops it, and then returns no value
NestFn == [tag |-> "nest", vals |-> <<>>, code |-> 0]

\* Result<Vec<WasmValue>, HostFuncError>
Ok(vs) == [ok |-> TRUE, vals |-> vs, err |-> "none", code |-> 0]
Err(kind, c) == [ok |-> FALSE, vals |-> <<>>, err |-> kind, code |-> c]

\* real_add: two inputs are added, any other input count is User(1)
real_add(input) ==
    IF Len(input) # 2 THEN Err("user", 1) ELSE Ok(<<input[1] + input[2]>>)

\* real_fn_locked(frame, input, data)
Invoke(fn, input) ==
    CASE fn.tag = "ret" -> Ok(fn.vals)
      [] fn.tag = "user" -> Err("user", fn.code)
      [] fn.tag = "runtime" -> Err("runtime", fn.code)
      [] fn.tag = "nest" -> Ok(<<>>)
      [] OTHER -> real_add(input)

\* variant: a failure of the fiber driver is not told from the outcome
BlockOn_Ignore(driverOk, outcome) == outcome

\* async_cx.block_on(future): the fiber driver fails, or hands on the
\* future's own outcome
BlockOn(driverOk, outcome) ==
    IF driverOk THEN outcome ELSE Err("runtime", AsyncDriverFailed)

\* ---------------------------------------------------------- native results
\* ffi::WasmEdge_Result: the success value { Code: 0 } and the values
\* WasmEdge_ResultGen(category, code) makes
Success == [kind |-> "success", cat |-> "none", code |-> 0]
ResultGen(cat, c) == [kind |-> "error", cat |-> cat, code |-> c]
NoRes == [kind |-> "none", cat |-> "none", code |-> 0]

\* What a constructor or a lookup returns: Err(Box::new(WasmEdgeError::..)),
\* arg being the name a NotFound error carries, or Ok(handle) with the
\* handle's registered flag.
WasmEdgeError(variant, arg) == [kind |-> "error", cat |-> variant, code |-> arg]
Handle(type, registered) ==
    [kind |-> "handle", cat |-> type, code |-> 0, registered |-> registered]

\* variant: a handle is returned whatever the engine returned
CreateResult_AlwaysHandle(type, error, ctx_is_null) == Handle(type, FALSE)

\* match ctx.is_null() { true => Err(Box::new(error)),
\*                        false => Ok(Self { inner, registered: false, .. }) }
CreateResult(type, error, ctx_is_null) ==
    IF ctx_is_null THEN WasmEdgeError(error, 0) ELSE Handle(type, FALSE)

\* the kinds of export of a module instance and the NotFound error of each
ExportKinds == {"Function", "Table", "Memory", "Global"}
NotFoundOf(kind) ==
    CASE kind = "Function" -> "Instance(InstanceError::NotFoundFunc)"
      [] kind = "Table" -> "Instance(InstanceError::NotFoundTable)"
      [] kind = "Memory" -> "Instance(InstanceError::NotFoundMem)"
      [] kind = "Global" -> "Instance(InstanceError::NotFoundGlobal)"

\* Instance::get_func, get_table, get_memory, get_global
GetterOf(kind) ==
    CASE kind = "Function" -> "get_func"
      [] kind = "Table" -> "get_table"
      [] kind = "Memory" -> "get_memory"
      [] kind = "Global" -> "get_global"

\* variant: a handle that is found comes out as an owning handle
FindResult_Owning(kind, name, ctx_is_null) ==
    IF ctx_is_null THEN WasmEdgeError(NotFoundOf(kind), name) ELSE Handle(kind, FALSE)

\* match ctx.is_null() { true => Err(NotFound..(name.as_ref().to_string())),
\*                        false => Ok(.. { inner, registered: true }) }
FindResult(kind, name, ctx_is_null) ==
    IF ctx_is_null THEN WasmEdgeError(NotFoundOf(kind), name) ELSE Handle(kind, TRUE)

\* variant: the two error categories are exchanged
ErrResult_Swapped(outcome) ==
    IF outcome.err = "user"
    THEN ResultGen("WASM", outcome.code)
    ELSE ResultGen("UserLevelError", outcome.code)

\* the Err arm of the trampolines
ErrResult(outcome) ==
    IF outcome.err = "user"
    THEN ResultGen("UserLevelError", outcome.code)
    ELSE ResultGen("WASM", outcome.code)

\* variant: the returned values are not copied to the return buffer
WriteReturns_None(raw, vals, idx) == raw

\* for (idx, wasm_value) in returns.into_iter().enumerate()
\*     { raw_returns[idx] = wasm_value.as_raw(); }
RECURSIVE WriteReturns(_, _, _)
WriteReturns(raw, vals, idx) ==
    IF idx > Len(vals) THEN raw
    ELSE WriteReturns([raw EXCEPT ![idx] = vals[idx]], vals, idx + 1)

\* variant: fewer values than return slots are let through
ReturnsLenOk_AtMost(vals, return_len) == Len(vals) <= return_len

\* assert!(returns.len() == return_len, ...)
ReturnsLenOk(vals, return_len) == Len(vals) = return_len

\* ------------------------------------------- the attribute macros
\* What the macros look at in the item they are given: whether it is a
\* function (Item::Fn), its asyncness, its name, its parameters (the
\* pattern and the shape of the type of each), its return type and its
\* block. A parameter's pattern is a plain identifier, a wildcard, another
\* pattern (a tuple), or the parameter is a receiver (self).
Pats == {"ident", "wild", "tuple", "receiver"}
\* &T, &mut T, Option<&T>, Option<&mut T>, Option<T>, Option with no
\* generic argument, another path (i32), another type (a tuple, a pointer)
TypeShapes ==
    {"&T", "&mut T", "Option<&T>", "Option<&mut T>", "Option<T>", "Option",
     "path", "other"}
Param(pat, ty) == [pat |-> pat, ty |-> ty]
FnItem(asyncness, inputs) ==
    [is_fn |-> TRUE, asyncness |-> asyncness, ident |-> "f", inputs |-> inputs,
     output |-> "-> Result<Vec<WasmValue>, HostFuncError>", block |-> "block"]
\* an item that is not a function: a struct
OtherItem ==
    [is_fn |-> FALSE, asyncness |-> FALSE, ident |-> "S", inputs |-> <<>>,
     output |-> "", block |-> ""]

\* What an expansion gives: the tokens of one function, a panic (the
\* compilation fails), or no token at all.
Tokens(item, asyncness, inputs, output, body) ==
    [kind |-> "fn", asyncness |-> asyncness, ident |-> item.ident,
     inputs |-> inputs, output |-> output, body |-> body, msg |-> ""]
Panic(msg) ==
    [kind |-> "panic", asyncness |-> FALSE, ident |-> "", inputs |-> <<>>,
     output |-> "", body |-> "", msg |-> msg]
NoTokens ==
    [kind |-> "empty", asyncness |-> FALSE, ident |-> "", inputs |-> <<>>,
     output |-> "", body |-> "", msg |-> ""]

\* the body of a generated function: the inner function it defines (its
\* parameters are the user's), whether a Caller is made from the frame,
\* the pointer type the data is cast to, and the call of the inner function
WrapperBody(inner_inputs, caller, cast, call) ==
    [form |-> "wrapper", inner_inputs |-> inner_inputs, caller |-> caller,
     cast |-> cast, call |-> call]
\* the user's block, as it is or inside Box::new(async move { .. })
BlockBody(form, caller) ==
    [form |-> form, inner_inputs |-> <<>>, caller |-> caller, cast |-> "none",
     call |-> <<>>]

BoxedFuture ==
    "-> Box<(dyn Future<Output = Result<Vec<WasmValue>, HostFuncError>> + Send)>"

\* variant: every type of the data parameter is taken
TypePtr_Any(ty) == [ok |-> TRUE, ptr |-> "*mut T", msg |-> ""]

\* let ty_ptr = match &data_arg { FnArg::Typed(PatType { ref ty, .. }) =>
\* match **ty { .. } }: the pointer type *mut T of a reference or of an
\* Option of a reference, a panic for every other type
TypePtr(ty) ==
    CASE ty \in {"&T", "&mut T"} -> [ok |-> TRUE, ptr |-> "*mut T", msg |-> ""]
      [] ty \in {"Option<&T>", "Option<&mut T>"} ->
             [ok |-> TRUE, ptr |-> "*mut T", msg |-> ""]
      [] ty = "Option<T>" ->
             [ok |-> FALSE, ptr |-> "", msg |-> "Not found syn::Type::Reference"]
      [] ty = "Option" ->
             [ok |-> FALSE, ptr |-> "",
              msg |-> "Not found syn::PathArguments::AngleBracketed"]
      [] ty = "path" ->
             [ok |-> FALSE, ptr |-> "", msg |-> "Not found segment ident: Option"]
      [] OTHER -> [ok |-> FALSE, ptr |-> "", msg |-> "Unsupported syn::Type type"]

\* parse_quote!(frame: wasmedge_sdk::CallingFrame,
\*              args: Vec<wasmedge_sdk::WasmValue>,
\*              data: *mut std::os::raw::c_void)
wrapper_fn_inputs ==
    <<Param("frame", "wasmedge_sdk::CallingFrame"),
      Param("args", "Vec<wasmedge_sdk::WasmValue>"),
      Param("data", "*mut std::os::raw::c_void")>>

expand_host_func(item) ==
    CASE Len(item.inputs) = 2 ->
             Tokens(item, FALSE, wrapper_fn_inputs, item.output,
                    WrapperBody(item.inputs, TRUE, "none", <<"caller", "args">>))
      [] Len(item.inputs) = 3 ->
             LET ty_ptr == TypePtr(item.inputs[3].ty)
             IN  IF ty_ptr.ok
                 THEN Tokens(item, FALSE, wrapper_fn_inputs, item.output,
                             WrapperBody(item.inputs, TRUE, ty_ptr.ptr,
                                         <<"caller", "args", "data">>))
                 ELSE Panic(ty_ptr.msg)
      [] OTHER -> Panic("Invalid numbers of host function arguments")

host_function(item) ==
    IF item.is_fn THEN expand_host_func(item) ELSE NoTokens

\* variant: the pattern of the first parameter is not looked at
FirstArg_AnyPattern(param) ==
    [ok |-> TRUE, used |-> param.pat # "wild", msg |-> ""]

\* let ident_first_arg = match &item_fn.sig.inputs[0] { .. }
FirstArg(param) ==
    CASE param.pat = "ident" -> [ok |-> TRUE, used |-> TRUE, msg |-> ""]
      [] param.pat = "wild" -> [ok |-> TRUE, used |-> FALSE, msg |-> ""]
      [] param.pat = "receiver" ->
             [ok |-> FALSE, used |-> FALSE, msg |-> "argument is a receiver"]
      [] OTHER -> [ok |-> FALSE, used |-> FALSE,
                   msg |-> "argument pattern is not a simple ident"]

expand_async_host_func_with_three_args(item) ==
    LET first == FirstArg(item.inputs[1])
    IN  IF ~first.ok THEN Panic(first.msg)
        ELSE Tokens(item, FALSE,
                    [item.inputs EXCEPT ![1] =
                        IF first.used
                        THEN Param("frame", "wasmedge_sdk::CallingFrame")
                        ELSE Param("_", "wasmedge_sdk::CallingFrame")],
                    BoxedFuture,
                    BlockBody("Box::new(async move { block })", first.used))

expand_async_host_func(item) ==
    IF Len(item.inputs) = 3
    THEN expand_async_host_func_with_three_args(item)
    ELSE Panic("Invalid numbers of host function arguments")

\* variant: a function that is not async is expanded as well
async_host_function_NoAsyncCheck(item) ==
    IF item.is_fn THEN expand_async_host_func(item) ELSE NoTokens

async_host_function(item) ==
    IF item.is_fn
    THEN IF ~item.asyncness THEN Panic("The function must be async")
         ELSE expand_async_host_func(item)
    ELSE NoTokens

sys_expand_host_func(item) ==
    IF Len(item.inputs) = 3
    THEN Tokens(item, FALSE, item.inputs, item.output, BlockBody("block", FALSE))
    ELSE Panic("Invalid numbers of host function arguments")

sys_host_function(item) ==
    IF item.is_fn THEN sys_expand_host_func(item) ELSE NoTokens

sys_expand_async_host_func(item) ==
    IF Len(item.inputs) = 3
    THEN Tokens(item, FALSE, item.inputs, BoxedFuture,
                BlockBody("Box::new(async move { block })", FALSE))
    ELSE Panic("Invalid numbers of host function arguments")

sys_async_host_function(item) ==
    IF item.is_fn
    THEN IF ~item.asyncness THEN Panic("The function must be async")
         ELSE sys_expand_async_host_func(item)
    ELSE NoTokens

\* let arg1 = match &item_fn.sig.inputs[0] { .. }, arg2 likewise: the
\* index panics when there is no such parameter
ArgIdent(inputs, i) ==
    IF Len(inputs) < i
    THEN [ok |-> FALSE, id |-> "", msg |-> "index out of bounds"]
    ELSE CASE inputs[i].pat = "ident" -> [ok |-> TRUE, id |-> "ident", msg |-> ""]
           [] inputs[i].pat = "wild" -> [ok |-> TRUE, id |-> "_", msg |-> ""]
           [] inputs[i].pat = "receiver" ->
                  [ok |-> FALSE, id |-> "", msg |-> "argument is a receiver"]
           [] OTHER -> [ok |-> FALSE, id |-> "",
                        msg |-> "argument pattern is not a simple ident"]

sys_expand_host_func_new(item) ==
    LET arg1 == ArgIdent(item.inputs, 1)
        arg2 == ArgIdent(item.inputs, 2)
    IN  CASE ~arg1.ok -> Panic(arg1.msg)
          [] arg1.ok /\ ~arg2.ok -> Panic(arg2.msg)
          [] arg1.ok /\ arg2.ok /\ Len(item.inputs) = 2 ->
                 Tokens(item, FALSE,
                        Append(item.inputs, Param("_data", "*mut std::os::raw::c_void")),
                        item.output,
                        WrapperBody(item.inputs, FALSE, "none", <<arg1.id, arg2.id>>))
          [] arg1.ok /\ arg2.ok /\ Len(item.inputs) = 3 ->
                 LET ty_ptr == TypePtr(item.inputs[3].ty)
                 IN  IF ty_ptr.ok
                     THEN Tokens(item, FALSE,
                                 Append(SubSeq(item.inputs, 1, 2),
                                        Param("data", "*mut std::os::raw::c_void")),
                                 item.output,
                                 WrapperBody(item.inputs, FALSE, ty_ptr.ptr,
                                             <<arg1.id, arg2.id, "data">>))
                     ELSE Panic(ty_ptr.msg)
          [] OTHER -> Panic("Invalid numbers of host function arguments")

sys_host_function_new(item) ==
    IF item.is_fn THEN sys_expand_host_func_new(item) ELSE NoTokens

\* the attribute macros of the crate
Macros ==
    {"host_function", "async_host_function", "sys_host_function",
     "sys_async_host_function", "sys_host_function_new"}
ExpandBy(macro, item) ==
    CASE macro = "host_function" -> host_function(item)
      [] macro = "async_host_function" -> async_host_function(item)
      [] macro = "sys_host_function" -> sys_host_function(item)
      [] macro = "sys_async_host_function" -> sys_async_host_function(item)
      [] macro = "sys_host_function_new" -> sys_host_function_new(item)

NoExpansion == [macro |-> "none", item |-> OtherItem, out |-> NoTokens]

\* The items the macros are given: functions of 0 to MaxParams parameters;
\* the pattern of the first two and the type of the third vary, the first
\* two have the types of a frame and of the arguments, a fourth is a u32.
ItemInputs(n, p1, p2, t3) ==
    SubSeq(<<Param(p1, "path"), Param(p2, "path"), Param("ident", t3),
             Param("ident", "path")>>, 1, n)

VARIABLES
    reg,        \* HOST_FUNCS, ASYNC_HOST_FUNCS: registry -> key -> closure
    rw,         \* the RwLock of each registry: its readers and its writer
    footprints, \* HOST_FUNC_FOOTPRINTS: native address -> key (0: no entry)
    fpLock,     \* the Mutex of HOST_FUNC_FOOTPRINTS: its holder, or 0
    mutex,      \* the boxed closures whose Mutex is locked
    ctx,        \* the native function contexts that are alive, by address
    heap,       \* the user-data blocks that are allocated
    arcs,       \* the Arc<Mutex<InnerFunc>> of the Function values alive
    import,     \* the ImportModule: its state, its owned functions (funcs)
                \* and the names bound in its native module
    th,         \* each thread: its position and its locals
    aborted,    \* the process was aborted by a panic in an extern "C" fn
    outer,      \* each thread: the dispatch whose closure body it is inside
    expansion,  \* the attribute macro that was expanded: its item and output
    instance    \* the Instance handles of one native module: the shared
                \* pointer, the flag, the count of the clones

vars == <<reg, rw, footprints, fpLock, mutex, ctx, heap, arcs, import, th, aborted, outer,
          expansion, instance>>

NoClo == [gen |-> 0, fn |-> NoFn]
NoCtx == [key |-> 0, r |-> "none", data |-> 0]
NoArc == [ptr |-> 0, registered |-> FALSE, data_owner |-> FALSE, strong |-> 0]

Idle ==
    [pc |-> "idle", r |-> "sync", key |-> 0, clo |-> NoClo, a |-> 0, h |-> 0,
     n |-> 0, args |-> <<>>, rbuf |-> <<>>, res |-> NoRes, data |-> 0,
     owner |-> FALSE, name |-> 0, drv |-> TRUE, op |-> "none"]

\* A thread is at the top of its program, or inside the body of a closure
\* that a dispatch of its own is running: fr is the frame of that dispatch
\* and phase the place in the body.
NoOuter == [fr |-> Idle, phase |-> "none"]

\* no Instance handle: struct Instance { inner: Arc<Mutex<InnerInstance>>,
\* registered: bool }; ptr is the pointer in the shared InnerInstance,
\* strong the count of the handles that share it, cloned whether a clone
\* was ever made, names the functions the native module exports, native
\* the native module and deletes the deletions requested of it
NoInstance ==
    [ptr |-> 0, registered |-> FALSE, strong |-> 0, cloned |-> FALSE,
     names |-> [nm \in Names |-> 0], native |-> "none", deletes |-> 0]

Init ==
    /\ reg = [r \in Registries |-> [k \in Keys |-> NoClo]]
    /\ rw = [r \in Registries |-> [readers |-> {}, writer |-> 0]]
    /\ footprints = [a \in 0..MaxAddr |-> 0]
    /\ fpLock = 0
    /\ mutex = {}
    /\ ctx = [a \in Addrs |-> NoCtx]
    /\ heap = {}
    /\ arcs = [x \in ArcIds |-> NoArc]
    /\ import = [state |-> "none", funcs |-> {}, names |-> [nm \in Names |-> 0],
                 exports |-> {}, freed |-> {}, clone |-> FALSE, cfuncs |-> {},
                 deletes |-> 0, data |-> 0, host_data |-> 0, chost_data |-> 0]
    /\ th = [t \in Threads |-> Idle]
    /\ aborted = FALSE
    /\ outer = [t \in Threads |-> NoOuter]
    /\ expansion = NoExpansion
    /\ instance = NoInstance

\* ------------------------------------------------------------- helpers
Set(t, rec) == th' = [th EXCEPT ![t] = rec]

\* map_host_func.contains_key(&key), map_host_func.get(&key).is_some()
contains_key(r, k) == reg[r][k] # NoClo

RegKeys(r) == {k \in Keys : contains_key(r, k)}

\* RwLock::read() and RwLock::write() can be taken
CanRead(r) == rw[r].writer = 0
CanWrite(r) == rw[r].writer = 0 /\ rw[r].readers = {}

\* the threads that hold an Arc clone of a boxed closure
Dispatching == {t \in Threads : th[t].pc \in {"w_lock", "w_locked", "w_exec"}}

\* Arc::new(Mutex::new(real_fn)): a new boxed closure under key k, distinct
\* from every closure of that key a dispatching thread still holds
NewGen(r, k) ==
    CHOOSE g \in Gens :
        /\ \A t \in Dispatching : ~(th[t].r = r /\ th[t].key = k /\ th[t].clo.gen = g)
        /\ \A g2 \in Gens :
            (\A t \in Dispatching : ~(th[t].r = r /\ th[t].key = k /\ th[t].clo.gen = g2))
                => g <= g2

\* variant: one Mutex for all the boxed closures
MutexOf_Global(r, k, clo) == <<"sync", 0, 0>>

\* every boxed closure has a Mutex of its own
MutexOf(r, k, clo) == <<r, k, clo.gen>>

LiveArcs == {x \in ArcIds : arcs[x] # NoArc}
NewArc == CHOOSE x \in ArcIds \ LiveArcs : \A y \in ArcIds \ LiveArcs : x <= y

RECURSIVE SumStrong(_)
SumStrong(S) ==
    IF S = {} THEN 0
    ELSE LET x == CHOOSE y \in S : TRUE IN arcs[x].strong + SumStrong(S \ {x})

\* Arc::strong_count(&self.inner)
StrongCount(x) == arcs[x].strong

\* the threads that are dropping a handle of the Arc
Dropping(x) ==
    {t \in Threads : th[t].h = x /\ th[t].pc \in
        {"d_fp", "d_sync", "d_async", "d_data", "d_del", "d_arc", "panicked"}}

\* the handles of the Arc the program can still clone, drop or give away:
\* not the one a thread is dropping, nor the one the import module owns
Avail(x) ==
    arcs[x].strong - Cardinality(Dropping(x)) - (IF x \in import.funcs THEN 1 ELSE 0)
        - (IF x \in import.cfuncs THEN 1 ELSE 0)

\* registrations that have not yet reached their insert
Registering(r) == {t \in Threads : th[t].pc \in {"c_write", "c_loop"} /\ th[t].r = r}

\* a constructor or a lookup that is under way will need a handle
Constructing == {t \in Threads : th[t].pc \in {"c_write", "c_loop", "c_bind", "c_fp"}}
HandleLeft == SumStrong(LiveArcs) + Cardinality(Constructing) < MaxHandles

\* ------------------------------------------- the trampolines (dispatch)
\* The native engine calls wrap_fn (r = "sync") or wrap_async_fn
\* (r = "async") with a key, the arguments and a return buffer of n slots.
Dispatch(t, r, k, n, input) ==
    /\ ~aborted
    /\ th[t].pc = "idle"
    /\ Set(t, [Idle EXCEPT !.pc = "w_read", !.r = r, !.key = k, !.n = n,
                           !.args = input,
                           !.rbuf = [i \in 1..n |-> Untouched]])
    /\ UNCHANGED <<reg, rw, footprints, fpLock, mutex, ctx, heap, arcs, import, aborted>>
    /\ UNCHANGED <<expansion, instance>>

\* variant: a miss is reported in the user-level category
MissResult_UserLevel == ResultGen("UserLevelError", HostFuncNotFound)

\* None => unsafe { ffi::WasmEdge_ResultGen(ffi::WasmEdge_ErrCategory_WASM, 5) }
MissResult == ResultGen("WASM", HostFuncNotFound)

\* let map_host_func = HOST_FUNCS.read(); match map_host_func.get(&key):
\* None returns at once (the read guard is dropped on return), Some clones
\* the Arc and goes on to lock the closure with the read guard still held.
WrapLookup(t) ==
    /\ ~aborted
    /\ th[t].pc = "w_read"
    /\ CanRead(th[t].r)
    /\ IF contains_key(th[t].r, th[t].key)
       THEN /\ Set(t, [th[t] EXCEPT !.pc = "w_lock", !.clo = reg[th[t].r][th[t].key]])
            /\ rw' = [rw EXCEPT ![th[t].r].readers = @ \cup {t}]
       ELSE /\ Set(t, [th[t] EXCEPT !.pc = "w_ret", !.res = MissResult])
            /\ UNCHANGED rw
    /\ UNCHANGED <<reg, footprints, fpLock, mutex, ctx, heap, arcs, import, aborted, outer>>
    /\ UNCHANGED <<expansion, instance>>

\* variant: the lock of a closure is never found taken
CanLock_Always(r, k, clo) == TRUE

\* real_fn.lock() can be taken
CanLock(r, k, clo) == MutexOf(r, k, clo) \notin mutex

\* let real_fn_locked = real_fn.lock();
WrapLockFn(t) ==
    /\ ~aborted
    /\ th[t].pc = "w_lock"
    /\ CanLock(th[t].r, th[t].key, th[t].clo)
    /\ mutex' = mutex \cup {MutexOf(th[t].r, th[t].key, th[t].clo)}
    /\ Set(t, [th[t] EXCEPT !.pc = "w_locked"])
    /\ UNCHANGED <<reg, rw, footprints, fpLock, ctx, heap, arcs, import, aborted, outer>>
    /\ UNCHANGED <<expansion, instance>>

\* variant: the call of the closure begins with the read guard still held
WrapDropRead_KeepRead(t) ==
    /\ ~aborted
    /\ th[t].pc = "w_locked"
    /\ Set(t, [th[t] EXCEPT !.pc = "w_exec"])
    /\ UNCHANGED <<reg, rw, footprints, fpLock, mutex, ctx, heap, arcs, import, aborted, outer>>
    /\ UNCHANGED <<expansion, instance>>

\* drop(map_host_func); and the call of the closure begins
WrapDropRead(t) ==
    /\ ~aborted
    /\ th[t].pc = "w_locked"
    /\ rw' = [rw EXCEPT ![th[t].r].readers = @ \ {t}]
    /\ Set(t, [th[t] EXCEPT !.pc = "w_exec"])
    /\ UNCHANGED <<reg, footprints, fpLock, mutex, ctx, heap, arcs, import, aborted, outer>>
    /\ UNCHANGED <<expansion, instance>>

\* the outcomes of the fiber driver: only wrap_async_fn has one
DriverOutcomes(r) == IF r = "async" THEN BOOLEAN ELSE {TRUE}

\* variant: the Err arm clears the return buffer
ParseResult_ClearOnErr(outcome, raw, return_len) ==
    IF outcome.ok
    THEN IF ReturnsLenOk(outcome.vals, return_len)
         THEN [abort |-> FALSE, rbuf |-> WriteReturns(raw, outcome.vals, 1), res |-> Success]
         ELSE [abort |-> TRUE, rbuf |-> raw, res |-> NoRes]
    ELSE [abort |-> FALSE, rbuf |-> [i \in 1..Len(raw) |-> 0], res |-> ErrResult(outcome)]

\* match real_fn_locked(frame, input, data) { Ok(returns) => ..., Err(err) => ... }
ParseResult(outcome, raw, return_len) ==
    IF outcome.ok
    THEN IF ReturnsLenOk(outcome.vals, return_len)
         THEN [abort |-> FALSE, rbuf |-> WriteReturns(raw, outcome.vals, 1), res |-> Success]
         ELSE [abort |-> TRUE, rbuf |-> raw, res |-> NoRes]
    ELSE [abort |-> FALSE, rbuf |-> raw, res |-> ErrResult(outcome)]

\* a closure whose body makes calls of its own returns when they are over
BodyDone(t) == th[t].clo.fn = NestFn => outer[t].phase = "done"

\* the closure returns; its result is parsed; the closure's guard is dropped
WrapFinish(t) ==
    /\ ~aborted
    /\ th[t].pc = "w_exec"
    /\ BodyDone(t)
    /\ \E driverOk \in DriverOutcomes(th[t].r) :
        LET out == ParseResult(BlockOn(driverOk, Invoke(th[t].clo.fn, th[t].args)),
                               th[t].rbuf, th[t].n)
        IN  IF out.abort
            THEN /\ aborted' = TRUE
                 /\ Set(t, [th[t] EXCEPT !.pc = "aborted", !.drv = driverOk])
                 /\ UNCHANGED mutex
            ELSE /\ Set(t, [th[t] EXCEPT !.pc = "w_ret", !.rbuf = out.rbuf,
                                         !.res = out.res, !.drv = driverOk])
                 /\ mutex' = mutex \ {MutexOf(th[t].r, th[t].key, th[t].clo)}
                 /\ UNCHANGED aborted
    /\ outer' = IF th[t].clo.fn = NestFn THEN [outer EXCEPT ![t] = NoOuter] ELSE outer
    /\ UNCHANGED <<reg, rw, footprints, fpLock, ctx, heap, arcs, import>>
    /\ UNCHANGED <<expansion, instance>>

\* the trampoline has returned to the native engine
WrapReturn(t) ==
    /\ ~aborted
    /\ th[t].pc = "w_ret"
    /\ Set(t, Idle)
    /\ UNCHANGED <<reg, rw, footprints, fpLock, mutex, ctx, heap, arcs, import, aborted, outer>>
    /\ UNCHANGED <<expansion, instance>>

\* the constructor that registers into r, alone or in the import module
ConstructorOf(r, name) ==
    IF name = 0
    THEN (IF r = "sync" THEN "create_sync_func" ELSE "create_async_func")
    ELSE (IF r = "sync" THEN "add_func_new" ELSE "add_async_func")

\* ------------------------------------------------------- registration
\* Function::create_sync_func / create_async_func, and with a name
\* ImportModule::add_func_new / add_async_func: the data is boxed
\* (Box::into_raw) when there is any, and the handle owns it.
CreateFunc(t, r, fn, withData, name) ==
    /\ ~aborted
    /\ th[t].pc = "idle"
    /\ HandleLeft
    /\ Cardinality(RegKeys(r)) + Cardinality(Registering(r)) < MaxKey
    /\ name # 0 => import.state = "live" /\ import.names[name] = 0 /\ ~withData
    /\ withData => DataIds \ heap # {}
    /\ LET d == IF withData THEN CHOOSE x \in DataIds : x \notin heap ELSE 0
       IN  /\ heap' = IF withData THEN heap \cup {d} ELSE heap
           /\ Set(t, [Idle EXCEPT !.pc = "c_write", !.r = r, !.data = d,
                                  !.clo = [gen |-> 0, fn |-> fn],
                                  !.owner = withData, !.name = name,
                                  !.op = ConstructorOf(r, name)])
    /\ UNCHANGED <<reg, rw, footprints, fpLock, mutex, ctx, arcs, import, aborted>>
    /\ UNCHANGED <<expansion, instance>>

\* let mut map_host_func = HOST_FUNCS.write(); let mut key: usize = rng.gen();
CreateWrite(t) ==
    /\ ~aborted
    /\ th[t].pc = "c_write"
    /\ CanWrite(th[t].r)
    /\ rw' = [rw EXCEPT ![th[t].r].writer = t]
    /\ \E k \in Keys : Set(t, [th[t] EXCEPT !.pc = "c_loop", !.key = k])
    /\ UNCHANGED <<reg, footprints, fpLock, mutex, ctx, heap, arcs, import, aborted, outer>>
    /\ UNCHANGED <<expansion, instance>>

\* variant: the first key drawn is used, present or not
RetryDraw_Never(r, k) == FALSE

\* variant: every key drawn is taken for a key of the registry
RetryDraw_Always(r, k) == TRUE

\* while map_host_func.contains_key(&key)
RetryDraw(r, k) == contains_key(r, k)

\* while ... { key = rng.gen(); }  and, out of the loop,
\* map_host_func.insert(key, Arc::new(Mutex::new(real_fn))); drop(map_host_func);
CreateInsert(t) ==
    /\ ~aborted
    /\ th[t].pc = "c_loop"
    /\ IF RetryDraw(th[t].r, th[t].key)
       THEN /\ \E k \in Keys : Set(t, [th[t] EXCEPT !.key = k])
            /\ UNCHANGED <<reg, rw>>
       ELSE /\ reg' = [reg EXCEPT ![th[t].r][th[t].key] =
                          [gen |-> NewGen(th[t].r, th[t].key), fn |-> th[t].clo.fn]]
            /\ rw' = [rw EXCEPT ![th[t].r].writer = 0]
            /\ Set(t, [th[t] EXCEPT !.pc = "c_bind", !.clo = NoClo])
    /\ UNCHANGED <<footprints, fpLock, mutex, ctx, heap, arcs, import, aborted, outer>>
    /\ UNCHANGED <<expansion, instance>>

\* ffi::WasmEdge_FunctionInstanceCreateBinding(ty, wrap_fn, key, data, cost):
\* the engine returns null or a context at an address that is not in use
CreateBinding(t) ==
    /\ ~aborted
    /\ th[t].pc = "c_bind"
    /\ \E a \in {0} \cup {x \in Addrs : ctx[x] = NoCtx} :
        /\ ctx' = IF a = 0 THEN ctx
                  ELSE [ctx EXCEPT ![a] = [key |-> th[t].key, r |-> th[t].r,
                                           data |-> th[t].data]]
        /\ Set(t, [th[t] EXCEPT !.pc = "c_fp", !.a = a])
    /\ UNCHANGED <<reg, rw, footprints, fpLock, mutex, heap, arcs, import, aborted, outer>>
    /\ UNCHANGED <<expansion, instance>>

\* variant: add_func_new binds the name and keeps no handle in self.funcs
CreateFootprint_NoPush(t) ==
    /\ ~aborted
    /\ th[t].pc = "c_fp"
    /\ fpLock = 0
    /\ footprints' = [footprints EXCEPT ![th[t].a] = th[t].key]
    /\ IF th[t].a = 0
       THEN UNCHANGED <<arcs, import>>
       ELSE /\ arcs' = [arcs EXCEPT ![NewArc] =
                           [ptr |-> th[t].a, registered |-> FALSE,
                            data_owner |-> th[t].owner, strong |-> 1]]
            /\ import' = IF th[t].name = 0 THEN import
                         ELSE [import EXCEPT !.names[th[t].name] = th[t].a]
    /\ Set(t, [th[t] EXCEPT !.pc = "ret",
                             !.h = IF th[t].a = 0 THEN 0 ELSE NewArc,
                             !.res = CreateResult("Function", "Func(FuncError::Create)",
                                                  th[t].a = 0)])
    /\ UNCHANGED <<reg, rw, fpLock, mutex, ctx, heap, aborted, outer>>
    /\ UNCHANGED <<expansion, instance>>

\* HOST_FUNC_FOOTPRINTS.lock().insert(footprint, key); match ctx.is_null():
\* an error, or the new handle; add_func_new then pushes the handle to
\* self.funcs and binds it under the name (WasmEdge_ModuleInstanceAddFunction)
CreateFootprint(t) ==
    /\ ~aborted
    /\ th[t].pc = "c_fp"
    /\ fpLock = 0
    /\ footprints' = [footprints EXCEPT ![th[t].a] = th[t].key]
    /\ IF th[t].a = 0
       THEN UNCHANGED <<arcs, import>>
       ELSE /\ arcs' = [arcs EXCEPT ![NewArc] =
                           [ptr |-> th[t].a, registered |-> FALSE,
                            data_owner |-> th[t].owner, strong |-> 1]]
            /\ import' = IF th[t].name = 0 THEN import
                         ELSE [import EXCEPT !.funcs = @ \cup {NewArc},
                                             !.names[th[t].name] = th[t].a]
    /\ Set(t, [th[t] EXCEPT !.pc = "ret",
                             !.h = IF th[t].a = 0 THEN 0 ELSE NewArc,
                             !.res = CreateResult("Function", "Func(FuncError::Create)",
                                                  th[t].a = 0)])
    /\ UNCHANGED <<reg, rw, fpLock, mutex, ctx, heap, aborted, outer>>
    /\ UNCHANGED <<expansion, instance>>

\* Function::create_with_custom_wrapper: the engine binds the caller's own
\* wrapper; no closure is registered and no footprint is recorded. The data
\* is the caller's: it is the handle's to free only when there is a handle.
CreateCustomWrapper(t, withData) ==
    /\ ~aborted
    /\ th[t].pc = "idle"
    /\ HandleLeft
    /\ withData => DataIds \ heap # {}
    /\ LET d == IF withData THEN CHOOSE x \in DataIds : x \notin heap ELSE 0
       IN  \E a \in {0} \cup {x \in Addrs : ctx[x] = NoCtx} :
              /\ IF a = 0
                 THEN UNCHANGED <<ctx, arcs, heap>>
                 ELSE /\ ctx' = [ctx EXCEPT ![a] = [key |-> 0, r |-> "custom", data |-> d]]
                     /\ arcs' = [arcs EXCEPT ![NewArc] =
                                    [ptr |-> a, registered |-> FALSE,
                                     data_owner |-> withData, strong |-> 1]]
                     /\ heap' = IF withData THEN heap \cup {d} ELSE heap
              /\ Set(t, [Idle EXCEPT !.pc = "ret", !.op = "create_with_custom_wrapper",
                                     !.a = a, !.h = IF a = 0 THEN 0 ELSE NewArc,
                                     !.res = CreateResult("Function",
                                                 "Func(FuncError::Create)", a = 0)])
    /\ UNCHANGED <<reg, rw, footprints, fpLock, mutex, import, aborted, outer>>
    /\ UNCHANGED <<expansion, instance>>

\* ------------------------------------------------------ clone and drop
\* variant: the clone comes out as a handle found by name
Clone_Registered(t, x) ==
    /\ ~aborted
    /\ th[t].pc = "idle"
    /\ x \in LiveArcs /\ Avail(x) > 0
    /\ HandleLeft
    /\ arcs' = [arcs EXCEPT ![x].strong = @ + 1, ![x].registered = TRUE]
    /\ UNCHANGED <<reg, rw, footprints, fpLock, mutex, ctx, heap, import, th, aborted, outer>>
    /\ UNCHANGED <<expansion, instance>>

\* impl Clone for Function: the Arc is shared, the flags are copied
Clone(t, x) ==
    /\ ~aborted
    /\ th[t].pc = "idle"
    /\ x \in LiveArcs /\ Avail(x) > 0
    /\ HandleLeft
    /\ arcs' = [arcs EXCEPT ![x].strong = @ + 1]
    /\ UNCHANGED <<reg, rw, footprints, fpLock, mutex, ctx, heap, import, th, aborted, outer>>
    /\ UNCHANGED <<expansion, instance>>

\* variants: the teardown is decided on without the count of the clones, or
\* without the registered flag
ShouldTeardown_AnyCount(x) == ~arcs[x].registered
ShouldTeardown_AnyHandle(x) == StrongCount(x) = 1
ShouldTeardown_Never(x) == FALSE

\* if !self.registered && Arc::strong_count(&self.inner) == 1
ShouldTeardown(x) == ~arcs[x].registered /\ StrongCount(x) = 1

\* impl Drop for Function, entered: the teardown is decided on
DropFunc(t, x) ==
    /\ ~aborted
    /\ th[t].pc = "idle"
    /\ x \in LiveArcs /\ Avail(x) > 0
    /\ Set(t, [Idle EXCEPT !.pc = IF ShouldTeardown(x) THEN "d_fp" ELSE "d_arc",
                           !.h = x, !.a = arcs[x].ptr])
    /\ UNCHANGED <<reg, rw, footprints, fpLock, mutex, ctx, heap, arcs, import, aborted>>
    /\ UNCHANGED <<expansion, instance>>

\* variant: a missing footprint is passed over and the teardown goes on
DropFootprint_Swallow(t) ==
    /\ ~aborted
    /\ th[t].pc = "d_fp"
    /\ fpLock = 0
    /\ IF footprints[th[t].a] # 0
       THEN /\ footprints' = [footprints EXCEPT ![th[t].a] = 0]
            /\ fpLock' = t
            /\ Set(t, [th[t] EXCEPT !.pc = "d_sync", !.key = footprints[th[t].a]])
       ELSE /\ Set(t, [th[t] EXCEPT !.pc = "d_data"])
            /\ UNCHANGED <<footprints, fpLock>>
    /\ UNCHANGED <<reg, rw, mutex, ctx, heap, arcs, import, aborted, outer>>
    /\ UNCHANGED <<expansion, instance>>

\* if let Some(key) = HOST_FUNC_FOOTPRINTS.lock().remove(&footprint) { ... }
\* else { panic!(...) }: the guard of the footprint table lives to the end
\* of the if-let
DropFootprint(t) ==
    /\ ~aborted
    /\ th[t].pc = "d_fp"
    /\ fpLock = 0
    /\ IF footprints[th[t].a] # 0
       THEN /\ footprints' = [footprints EXCEPT ![th[t].a] = 0]
            /\ fpLock' = t
            /\ Set(t, [th[t] EXCEPT !.pc = "d_sync", !.key = footprints[th[t].a]])
       ELSE /\ Set(t, [th[t] EXCEPT !.pc = "panicked"])
            /\ UNCHANGED <<footprints, fpLock>>
    /\ UNCHANGED <<reg, rw, mutex, ctx, heap, arcs, import, aborted, outer>>
    /\ UNCHANGED <<expansion, instance>>

\* the steps of the teardown of impl Drop for Function
TeardownPcs == {"d_fp", "d_sync", "d_async", "d_data", "d_del"}

\* variant: the key is left in the registry
Remove_Nothing(r, k) == reg

\* variant: the removal of a key empties the registry
Remove_All(r, k) == [reg EXCEPT ![r] = [k2 \in Keys |-> NoClo]]

\* if map_host_func.contains_key(&key) { map_host_func.remove(&key) }
Remove(r, k) == [reg EXCEPT ![r][k] = NoClo]

\* let mut map_host_func = HOST_FUNCS.write(); the key is removed
DropSync(t) ==
    /\ ~aborted
    /\ th[t].pc = "d_sync"
    /\ CanWrite("sync")
    /\ rw' = [rw EXCEPT !["sync"].writer = t]
    /\ reg' = Remove("sync", th[t].key)
    /\ Set(t, [th[t] EXCEPT !.pc = "d_async"])
    /\ UNCHANGED <<footprints, fpLock, mutex, ctx, heap, arcs, import, aborted, outer>>
    /\ UNCHANGED <<expansion, instance>>

\* let mut map_host_func = ASYNC_HOST_FUNCS.write(); the key is removed, and
\* the three guards are dropped at the end of the if-let
DropAsync(t) ==
    /\ ~aborted
    /\ th[t].pc = "d_async"
    /\ CanWrite("async")
    /\ reg' = Remove("async", th[t].key)
    /\ rw' = [rw EXCEPT !["sync"].writer = 0]
    /\ fpLock' = 0
    /\ Set(t, [th[t] EXCEPT !.pc = "d_data"])
    /\ UNCHANGED <<footprints, mutex, ctx, heap, arcs, import, aborted, outer>>
    /\ UNCHANGED <<expansion, instance>>

\* if self.data_owner { Box::from_raw(ffi::WasmEdge_FunctionInstanceGetData(ctx)) }
DropData(t) ==
    /\ ~aborted
    /\ th[t].pc = "d_data"
    /\ heap' = IF arcs[th[t].h].data_owner THEN heap \ {ctx[th[t].a].data} ELSE heap
    /\ Set(t, [th[t] EXCEPT !.pc = "d_del",
                            !.data = IF arcs[th[t].h].data_owner
                                     THEN ctx[th[t].a].data ELSE 0])
    /\ UNCHANGED <<reg, rw, footprints, fpLock, mutex, ctx, arcs, import, aborted, outer>>
    /\ UNCHANGED <<expansion, instance>>

\* if !self.inner.lock().0.is_null() { ffi::WasmEdge_FunctionInstanceDelete(ctx) }
DropDelete(t) ==
    /\ ~aborted
    /\ th[t].pc = "d_del"
    /\ ctx' = IF th[t].a # 0 THEN [ctx EXCEPT ![th[t].a] = NoCtx] ELSE ctx
    /\ Set(t, [th[t] EXCEPT !.pc = "d_arc"])
    /\ UNCHANGED <<reg, rw, footprints, fpLock, mutex, heap, arcs, import, aborted, outer>>
    /\ UNCHANGED <<expansion, instance>>

\* the fields are dropped after drop(): the Arc's strong count goes down
DropArc(t) ==
    /\ ~aborted
    /\ th[t].pc = "d_arc"
    /\ arcs' = [arcs EXCEPT ![th[t].h] =
                    IF @.strong = 1 THEN NoArc ELSE [@ EXCEPT !.strong = @ - 1]]
    /\ Set(t, Idle)
    /\ UNCHANGED <<reg, rw, footprints, fpLock, mutex, ctx, heap, import, aborted, outer>>
    /\ UNCHANGED <<expansion, instance>>

\* ------------------------------------------------- the import module
\* ImportModule::create: WasmEdge_ModuleInstanceCreate, or with host data
\* WasmEdge_ModuleInstanceCreateWithData with the address of the boxed
\* data, returns null (an error, no module, and the box is dropped with
\* the value) or the native module
CreateImportOf(t, withData) ==
    /\ ~aborted
    /\ th[t].pc = "idle"
    /\ import.state = "none"
    /\ withData => DataIds \ heap # {}
    /\ \E ctx_is_null \in BOOLEAN :
          LET d == IF withData THEN CHOOSE x \in DataIds : x \notin heap ELSE 0
          IN  /\ import' = IF ctx_is_null THEN import
                           ELSE [import EXCEPT !.state = "live", !.data = d,
                                               !.host_data = d]
              /\ heap' = IF withData /\ ~ctx_is_null THEN heap \cup {d} ELSE heap
              /\ Set(t, [Idle EXCEPT !.pc = "ret", !.op = "ImportModule::create",
                                     !.a = IF ctx_is_null THEN 0 ELSE 1,
                                     !.res = CreateResult("ImportModule",
                                                 "Instance(InstanceError::CreateImportModule)",
                                                 ctx_is_null)])
    /\ UNCHANGED <<reg, rw, footprints, fpLock, mutex, ctx, arcs, aborted, outer>>
    /\ UNCHANGED <<expansion, instance>>

\* ImportModule::create(name, None)
CreateImport(t) == CreateImportOf(t, FALSE)

\* the native function contexts bound in the native module
BoundAddrs == {import.names[nm] : nm \in Names} \ {0}

\* Arc::strong_count(&self.inner) of the ImportModule values: the module
\* and, when there is one, its clone
ImportStrong == IF import.clone THEN 2 ELSE 1

\* if !self.registered && Arc::strong_count(&self.inner) == 1
\*    && !self.inner.0.is_null()
ImportShouldDelete == ImportStrong = 1

\* #[derive(Clone)] for ImportModule: the Arc of the native module is
\* shared, the list of functions is cloned, function by function, and the
\* boxed host data is cloned into a box of its own
CloneImport(t) ==
    /\ ~aborted
    /\ th[t].pc = "idle"
    /\ outer[t] = NoOuter
    /\ import.state = "live"
    /\ ~import.clone
    /\ SumStrong(LiveArcs) + Cardinality(import.funcs) <= MaxHandles
    /\ import.host_data # 0 => DataIds \ heap # {}
    /\ arcs' = [x \in ArcIds |->
                  IF x \in import.funcs THEN [arcs[x] EXCEPT !.strong = @ + 1]
                  ELSE arcs[x]]
    /\ LET d == IF import.host_data # 0 THEN CHOOSE x \in DataIds : x \notin heap ELSE 0
       IN  /\ import' = [import EXCEPT !.clone = TRUE, !.cfuncs = import.funcs,
                                        !.chost_data = d]
           /\ heap' = IF d # 0 THEN heap \cup {d} ELSE heap
    /\ UNCHANGED <<reg, rw, footprints, fpLock, mutex, ctx, th, aborted, outer>>
    /\ UNCHANGED <<expansion, instance>>

\* impl Drop for ImportModule while another value shares the native
\* module: drop() does nothing; the fields are dropped after it, inner
\* first (the count goes down) and then the functions of the list. The
\* value that is dropped is the module (first) or its clone; the value that
\* stays is the module from then on.
DropImportShared(t) ==
    /\ ~aborted
    /\ th[t].pc = "idle"
    /\ outer[t] = NoOuter
    /\ import.state = "live"
    /\ ~ImportShouldDelete
    /\ \E first \in BOOLEAN :
          import' = [import EXCEPT !.clone = FALSE,
                                   !.funcs = IF first THEN import.cfuncs ELSE import.funcs,
                                   !.cfuncs = IF first THEN import.funcs ELSE import.cfuncs,
                                   !.host_data = IF first THEN import.chost_data
                                                 ELSE import.host_data,
                                   !.chost_data = IF first THEN import.host_data
                                                  ELSE import.chost_data]
    /\ outer' = [outer EXCEPT ![t] = [fr |-> Idle, phase |-> "glue"]]
    /\ UNCHANGED <<reg, rw, footprints, fpLock, mutex, ctx, heap, arcs, th, aborted>>
    /\ UNCHANGED <<expansion, instance>>

\* the next function of the list of the value that is dropped
GluePop(t) ==
    /\ ~aborted
    /\ th[t].pc = "idle"
    /\ outer[t].phase = "glue"
    /\ \E x \in import.cfuncs :
          /\ import' = [import EXCEPT !.cfuncs = @ \ {x}]
          /\ outer' = [outer EXCEPT ![t] = [fr |-> [Idle EXCEPT !.h = x], phase |-> "glued"]]
    /\ UNCHANGED <<reg, rw, footprints, fpLock, mutex, ctx, heap, arcs, th, aborted>>
    /\ UNCHANGED <<expansion, instance>>

\* and its drop: impl Drop for Function runs for it
GlueDrop(t) ==
    /\ outer[t].phase = "glued"
    /\ DropFunc(t, outer[t].fr.h)
    /\ outer' = [outer EXCEPT ![t] = [fr |-> Idle, phase |-> "glue"]]

\* the list is empty; host_data, the last field, is dropped: the value's
\* own block is freed and the value is gone
GlueDone(t) ==
    /\ ~aborted
    /\ th[t].pc = "idle"
    /\ outer[t].phase = "glue"
    /\ import.cfuncs = {}
    /\ heap' = heap \ {import.chost_data}
    /\ import' = [import EXCEPT !.chost_data = 0]
    /\ outer' = [outer EXCEPT ![t] = NoOuter]
    /\ UNCHANGED <<reg, rw, footprints, fpLock, mutex, ctx, arcs, th, aborted>>
    /\ UNCHANGED <<expansion, instance>>

\* impl Drop for ImportModule (not registered, sole owner, non-null):
\* WasmEdge_ModuleInstanceDelete(self.inner.0) frees the module and the
\* function contexts bound in it; the owned functions are dropped next
DropImport(t) ==
    /\ ~aborted
    /\ th[t].pc = "idle"
    /\ outer[t] = NoOuter
    /\ import.state = "live"
    /\ ImportShouldDelete
    /\ ctx' = [a \in Addrs |-> IF a \in BoundAddrs THEN NoCtx ELSE ctx[a]]
    /\ import' = [import EXCEPT !.state = "draining", !.names = [nm \in Names |-> 0],
                                !.exports = {}, !.deletes = @ + 1]
    /\ outer' = [outer EXCEPT ![t] = [fr |-> Idle, phase |-> "drain"]]
    /\ UNCHANGED <<reg, rw, footprints, fpLock, mutex, heap, arcs, th, aborted>>
    /\ UNCHANGED <<expansion, instance>>

\* self.funcs.drain(..): the next function is taken out of the list
DrainPop(t) ==
    /\ ~aborted
    /\ th[t].pc = "idle"
    /\ outer[t].phase = "drain"
    /\ \E x \in import.funcs :
          /\ import' = [import EXCEPT !.funcs = @ \ {x}]
          /\ outer' = [outer EXCEPT ![t] = [fr |-> [Idle EXCEPT !.h = x], phase |-> "drained"]]
    /\ UNCHANGED <<reg, rw, footprints, fpLock, mutex, ctx, heap, arcs, th, aborted>>
    /\ UNCHANGED <<expansion, instance>>

\* and is dropped: impl Drop for Function runs for it
DrainDrop(t) ==
    /\ outer[t].phase = "drained"
    /\ DropFunc(t, outer[t].fr.h)
    /\ outer' = [outer EXCEPT ![t] = [fr |-> Idle, phase |-> "drain"]]

\* the list is empty: the fields are dropped, host_data with them, and
\* the drop of the ImportModule is over
DrainDone(t) ==
    /\ ~aborted
    /\ th[t].pc = "idle"
    /\ outer[t].phase = "drain"
    /\ import.funcs = {}
    /\ heap' = heap \ {import.host_data}
    /\ import' = [import EXCEPT !.state = "dropped", !.host_data = 0, !.data = 0]
    /\ outer' = [outer EXCEPT ![t] = NoOuter]
    /\ UNCHANGED <<reg, rw, footprints, fpLock, mutex, ctx, arcs, th, aborted>>
    /\ UNCHANGED <<expansion, instance>>

\* AsImport::add_func: self.funcs.push(func) and
\* WasmEdge_ModuleInstanceAddFunction(self.inner.0, name, f.inner.lock().0)
AddFunc(t, name, x) ==
    /\ ~aborted
    /\ th[t].pc = "idle"
    /\ x \in LiveArcs /\ Avail(x) > 0 /\ ~arcs[x].registered
    /\ import.state = "live"
    /\ import.names[name] = 0
    /\ x \notin import.funcs
    /\ import' = [import EXCEPT !.funcs = @ \cup {x}, !.names[name] = arcs[x].ptr]
    /\ UNCHANGED <<reg, rw, footprints, fpLock, mutex, ctx, heap, arcs, th, aborted, outer>>
    /\ UNCHANGED <<expansion, instance>>

\* Instance::get_func: WasmEdge_ModuleInstanceFindFunction(ctx, name); a name
\* that is found gives Function { inner: Arc::new(..), registered: true }
GetFunc(t, name) ==
    /\ ~aborted
    /\ th[t].pc = "idle"
    /\ HandleLeft
    /\ LET res == FindResult("Function", name, import.names[name] = 0)
       IN  /\ arcs' = IF import.names[name] = 0 THEN arcs
                      ELSE [arcs EXCEPT ![NewArc] =
                               [ptr |-> import.names[name], registered |-> res.registered,
                                data_owner |-> FALSE, strong |-> 1]]
           /\ Set(t, [Idle EXCEPT !.pc = "ret", !.op = GetterOf("Function"), !.name = name,
                                  !.a = import.names[name],
                                  !.h = IF import.names[name] = 0 THEN 0 ELSE NewArc,
                                  !.res = res])
    /\ UNCHANGED <<reg, rw, footprints, fpLock, mutex, ctx, heap, import, aborted, outer>>
    /\ UNCHANGED <<expansion, instance>>

\* AsImport::add_table, add_memory, add_global: the instance is bound under
\* the name in the native module, which owns it from then on
AddExport(t, kind, name) ==
    /\ ~aborted
    /\ th[t].pc = "idle"
    /\ kind # "Function"
    /\ import.state = "live"
    /\ <<kind, name>> \notin import.exports
    /\ import' = [import EXCEPT !.exports = @ \cup {<<kind, name>>}]
    /\ UNCHANGED <<reg, rw, footprints, fpLock, mutex, ctx, heap, arcs, th, aborted, outer>>
    /\ UNCHANGED <<expansion, instance>>

\* ImportModule::add_table_new, add_table_with_data, add_memory_new,
\* add_global_new, and the kind of native object each makes
Adders == {"add_table_new", "add_table_with_data", "add_memory_new", "add_global_new"}
KindOfAdder(op) ==
    CASE op \in {"add_table_new", "add_table_with_data"} -> "Table"
      [] op = "add_memory_new" -> "Memory"
      [] op = "add_global_new" -> "Global"

\* Ok(())
OkUnit == [kind |-> "ok", cat |-> "()", code |-> 0]

\* variant: the local wrapper keeps its native pointer
NullPointer_Keep(ptr) == ptr

\* table.inner.lock().0 = std::ptr::null_mut()
NullPointer(ptr) == 0

\* the destructor of a local wrapper (not registered, sole holder of its
\* Arc) requests the native deletion when its native pointer is not null
WrapperDeletes(ptr) == ptr # 0

\* let table = Table::create(ty)?: the wrapper of a new native object (its
\* pointer is th[t].a), or the constructor's error, which is returned
AddNewCreate(t, op, name) ==
    /\ ~aborted
    /\ th[t].pc = "idle"
    /\ op \in Adders
    /\ import.state = "live"
    /\ <<KindOfAdder(op), name>> \notin import.exports
    /\ \E ctx_is_null \in BOOLEAN :
          Set(t, IF ctx_is_null
                 THEN [Idle EXCEPT !.pc = "ret", !.op = op, !.name = name,
                                   !.res = WasmEdgeError(KindOfAdder(op), 0)]
                 ELSE [Idle EXCEPT !.pc = IF op = "add_table_with_data"
                                          THEN "n_set" ELSE "n_made",
                                   !.op = op, !.name = name, !.a = 1])
    /\ UNCHANGED <<reg, rw, footprints, fpLock, mutex, ctx, heap, arcs, import, aborted, outer>>
    /\ UNCHANGED <<expansion, instance>>

\* table.set_data(data, idx)?: on an error the function returns and the
\* wrapper, which still has its pointer, is dropped
AddNewSetData(t) ==
    /\ ~aborted
    /\ th[t].pc = "n_set"
    /\ \E ok \in BOOLEAN :
          IF ok
          THEN /\ Set(t, [th[t] EXCEPT !.pc = "n_made"])
               /\ UNCHANGED import
          ELSE /\ Set(t, [th[t] EXCEPT !.pc = "ret", !.a = 0,
                                       !.res = WasmEdgeError("Table", 1)])
               /\ import' = IF WrapperDeletes(th[t].a)
                            THEN [import EXCEPT !.freed = @ \cup {<<"Table", th[t].name>>}]
                            ELSE import
    /\ UNCHANGED <<reg, rw, footprints, fpLock, mutex, ctx, heap, arcs, aborted, outer>>
    /\ UNCHANGED <<expansion, instance>>

\* ffi::WasmEdge_ModuleInstanceAddTable / AddMemory / AddGlobal(self.inner.0,
\* name, wrapper.inner.lock().0): the native module owns the object
AddNewInsert(t) ==
    /\ ~aborted
    /\ th[t].pc = "n_made"
    /\ import' = [import EXCEPT !.exports = @ \cup {<<KindOfAdder(th[t].op), th[t].name>>}]
    /\ Set(t, [th[t] EXCEPT !.pc = "n_added"])
    /\ UNCHANGED <<reg, rw, footprints, fpLock, mutex, ctx, heap, arcs, aborted, outer>>
    /\ UNCHANGED <<expansion, instance>>

\* wrapper.inner.lock().0 = std::ptr::null_mut()
AddNewNull(t) ==
    /\ ~aborted
    /\ th[t].pc = "n_added"
    /\ Set(t, [th[t] EXCEPT !.pc = "n_nulled", !.a = NullPointer(th[t].a)])
    /\ UNCHANGED <<reg, rw, footprints, fpLock, mutex, ctx, heap, arcs, import, aborted, outer>>
    /\ UNCHANGED <<expansion, instance>>

\* Ok(()): the local wrapper goes out of scope and its destructor runs
AddNewEnd(t) ==
    /\ ~aborted
    /\ th[t].pc = "n_nulled"
    /\ import' = IF WrapperDeletes(th[t].a)
                 THEN [import EXCEPT !.freed = @ \cup {<<KindOfAdder(th[t].op), th[t].name>>}]
                 ELSE import
    /\ Set(t, [th[t] EXCEPT !.pc = "ret", !.res = OkUnit])
    /\ UNCHANGED <<reg, rw, footprints, fpLock, mutex, ctx, heap, arcs, aborted, outer>>
    /\ UNCHANGED <<expansion, instance>>

\* Instance::get_table, get_memory, get_global:
\* WasmEdge_ModuleInstanceFind..(ctx, name), null when the name is not bound
GetExport(t, kind, name) ==
    /\ ~aborted
    /\ th[t].pc = "idle"
    /\ kind # "Function"
    /\ Set(t, [Idle EXCEPT !.pc = "ret", !.op = GetterOf(kind), !.name = name,
                           !.a = IF <<kind, name>> \in import.exports THEN 1 ELSE 0,
                           !.res = FindResult(kind, name, <<kind, name>> \notin import.exports)])
    /\ UNCHANGED <<reg, rw, footprints, fpLock, mutex, ctx, heap, arcs, import, aborted, outer>>
    /\ UNCHANGED <<expansion, instance>>

\* FuncType::create: WasmEdge_FunctionTypeCreate(..), null on failure
FuncTypeCreate(t) ==
    /\ ~aborted
    /\ th[t].pc = "idle"
    /\ \E ctx_is_null \in BOOLEAN :
          Set(t, [Idle EXCEPT !.pc = "ret", !.op = "FuncType::create",
                              !.a = IF ctx_is_null THEN 0 ELSE 1,
                              !.res = CreateResult("FuncType", "FuncTypeCreate", ctx_is_null)])
    /\ UNCHANGED <<reg, rw, footprints, fpLock, mutex, ctx, heap, arcs, import, aborted, outer>>
    /\ UNCHANGED <<expansion, instance>>

\* the caller has the Result of the constructor or of the lookup
Return(t) ==
    /\ ~aborted
    /\ th[t].pc = "ret"
    /\ Set(t, Idle)
    /\ UNCHANGED <<reg, rw, footprints, fpLock, mutex, ctx, heap, arcs, import, aborted, outer>>
    /\ UNCHANGED <<expansion, instance>>

\* ------------------------------------------------------- Instance
\* An Instance of a native module comes from the executor or the store:
\* Instance { inner: Arc::new(Mutex::new(InnerInstance(ctx))), registered },
\* registered for a module the store owns. The module exports functions.
InstanceNew(t, registered, names) ==
    /\ ~aborted
    /\ th[t].pc = "idle"
    /\ outer[t] = NoOuter
    /\ instance.native = "none"
    /\ instance' = [ptr |-> 1, registered |-> registered, strong |-> 1,
                    cloned |-> FALSE, names |-> names, native |-> "live",
                    deletes |-> 0]
    /\ UNCHANGED <<reg, rw, footprints, fpLock, mutex, ctx, heap, arcs, import, th,
                   aborted, outer, expansion>>

\* the threads that are dropping an Instance handle
InstanceDropping == {t \in Threads : th[t].pc = "i_arc"}

\* the Instance handles that no drop has taken
InstanceAvail == instance.strong - Cardinality(InstanceDropping)

\* impl Clone for Instance: inner: self.inner.clone(), registered: self.registered
InstanceClone(t) ==
    /\ ~aborted
    /\ th[t].pc = "idle"
    /\ outer[t] = NoOuter
    /\ InstanceAvail > 0
    /\ instance.strong < MaxHandles
    /\ instance' = [instance EXCEPT !.strong = @ + 1, !.cloned = TRUE]
    /\ UNCHANGED <<reg, rw, footprints, fpLock, mutex, ctx, heap, arcs, import, th,
                   aborted, outer, expansion>>

\* variant: the native module is deleted whatever the count of the clones
InstanceShouldDelete_AnyCount == instance.ptr # 0

\* else if Arc::strong_count(&self.inner) == 1 && !self.inner.lock().0.is_null()
InstanceShouldDelete == instance.strong = 1 /\ instance.ptr # 0

\* impl Drop for Instance: a registered handle sets the shared pointer to
\* null; a handle that is not registered, the last one and not null has
\* the native module deleted (WasmEdge_ModuleInstanceDelete)
InstanceDrop(t) ==
    /\ ~aborted
    /\ th[t].pc = "idle"
    /\ outer[t] = NoOuter
    /\ InstanceAvail > 0
    /\ instance' =
          IF instance.registered
          THEN [instance EXCEPT !.ptr = 0]
          ELSE IF InstanceShouldDelete
               THEN [instance EXCEPT !.native = "deleted", !.deletes = @ + 1]
               ELSE instance
    /\ Set(t, [Idle EXCEPT !.pc = "i_arc"])
    /\ UNCHANGED <<reg, rw, footprints, fpLock, mutex, ctx, heap, arcs, import,
                   aborted, outer, expansion>>

\* the fields are dropped after drop(): the Arc's strong count goes down
InstanceDropArc(t) ==
    /\ ~aborted
    /\ th[t].pc = "i_arc"
    /\ instance' = [instance EXCEPT !.strong = @ - 1]
    /\ Set(t, Idle)
    /\ UNCHANGED <<reg, rw, footprints, fpLock, mutex, ctx, heap, arcs, import,
                   aborted, outer, expansion>>

\* WasmEdge_ModuleInstanceFindFunction(self.inner.lock().0, name): the
\* function of that name in the module the pointer denotes; nothing is
\* found through a null pointer
InstanceFind(name) == IF instance.ptr = 0 THEN 0 ELSE instance.names[name]

\* Instance::get_func called on a handle of the Instance
InstanceGetFunc(t, name) ==
    /\ ~aborted
    /\ th[t].pc = "idle"
    /\ outer[t] = NoOuter
    /\ InstanceAvail > 0
    /\ HandleLeft
    /\ LET func_ctx == InstanceFind(name)
           res == FindResult("Function", name, func_ctx = 0)
       IN  /\ arcs' = IF func_ctx = 0 THEN arcs
                      ELSE [arcs EXCEPT ![NewArc] =
                               [ptr |-> func_ctx, registered |-> res.registered,
                                data_owner |-> FALSE, strong |-> 1]]
           /\ Set(t, [Idle EXCEPT !.pc = "ret", !.op = GetterOf("Function"), !.name = name,
                                  !.a = func_ctx,
                                  !.h = IF func_ctx = 0 THEN 0 ELSE NewArc,
                                  !.res = res])
    /\ UNCHANGED <<reg, rw, footprints, fpLock, mutex, ctx, heap, import, aborted, outer>>
    /\ UNCHANGED <<expansion, instance>>

\* ------------------------------------------------ callers of the bridge
\* The operations are entered by a caller: the program of a thread, which
\* is inside no closure, or the body of a closure a dispatch is running.
Top(t) == outer[t] = NoOuter

CallCreate(t, r, fn, withData, name) ==
    /\ Top(t)
    /\ CreateFunc(t, r, fn, withData, name)
    /\ UNCHANGED outer

CallDispatch(t, r, k, n, input) ==
    /\ Top(t)
    /\ Dispatch(t, r, k, n, input)
    /\ UNCHANGED outer

CallDrop(t, x) ==
    /\ Top(t)
    /\ DropFunc(t, x)
    /\ UNCHANGED outer

\* the body of func begins (wrap_fn has called real_fn_locked): what it
\* does, on a thread it spawns and joins, are calls of the bridge made
\* while the dispatch waits
BodyEnter(t) ==
    /\ ~aborted
    /\ th[t].pc = "w_exec"
    /\ th[t].clo.fn = NestFn
    /\ outer[t].phase = "none"
    /\ outer' = [outer EXCEPT ![t] = [fr |-> th[t], phase |-> "create"]]
    /\ Set(t, Idle)
    /\ UNCHANGED <<reg, rw, footprints, fpLock, mutex, ctx, heap, arcs, import, aborted>>
    /\ UNCHANGED <<expansion, instance>>

\* the host function the body has created: the one that is not the
\* function the body belongs to
BodyFuncs(t) ==
    {x \in LiveArcs :
        /\ ~arcs[x].registered
        /\ arcs[x].ptr # 0
        /\ ctx[arcs[x].ptr].key # outer[t].fr.key}

\* Function::create_sync_func::<NeverType>(&func_ty, Box::new(real_add), None, 0)
BodyCreate(t) ==
    /\ outer[t].phase = "create"
    /\ CreateFunc(t, "sync", RealAdd, FALSE, 0)
    /\ outer' = [outer EXCEPT ![t].phase = "call"]

\* host_func.call(&mut executor, vec![1, 2]): the engine calls wrap_fn with
\* the key bound to the function
BodyCall(t) ==
    /\ outer[t].phase = "call"
    /\ \E x \in BodyFuncs(t) :
          Dispatch(t, "sync", ctx[arcs[x].ptr].key, 1, <<1, 2>>)
    /\ outer' = [outer EXCEPT ![t].phase = "drop"]

\* host_func goes out of scope at the end of the spawned thread
BodyDrop(t) ==
    /\ outer[t].phase = "drop"
    /\ \E x \in BodyFuncs(t) : DropFunc(t, x)
    /\ outer' = [outer EXCEPT ![t].phase = "exit"]

\* handler.join().unwrap(); Ok(vec![]): the dispatch goes on
BodyExit(t) ==
    /\ ~aborted
    /\ outer[t].phase = "exit"
    /\ th[t].pc = "idle"
    /\ Set(t, outer[t].fr)
    /\ outer' = [outer EXCEPT ![t] = [fr |-> Idle, phase |-> "done"]]
    /\ UNCHANGED <<reg, rw, footprints, fpLock, mutex, ctx, heap, arcs, import, aborted>>
    /\ UNCHANGED <<expansion, instance>>

\* ------------------------------------------------------ specifications
\* the closures of the concurrent specifications: two constants
ConcFns == {Ret(<<1>>), Ret(<<2>>)}

\* every closure shape, for the specification of the trampolines
ValueLists == {<<>>, <<1>>, <<1, 2>>, <<2, 1, 2>>}
AllFns ==
    {Ret(vs) : vs \in ValueLists} \cup {UserErr(c) : c \in Codes}
        \cup {RuntimeErr(c) : c \in Codes} \cup {RealAdd}
ArgLists == {<<>>, <<1, 2>>}

AllIdle == \A t \in Threads : th[t].pc = "idle"

\* Spec: threads register host functions in both registries and drop the
\* handles, concurrently; the native engine has room for every function.
Next ==
    \E t \in Threads :
        \/ \E r \in Registries : CallCreate(t, r, Ret(<<1>>), FALSE, 0)
        \/ CreateWrite(t)
        \/ CreateInsert(t)
        \/ CreateBinding(t) /\ th'[t].a # 0
        \/ CreateFootprint(t)
        \/ Return(t)
        \/ \E x \in ArcIds : CallDrop(t, x)
        \/ DropFootprint(t)
        \/ DropSync(t)
        \/ DropAsync(t)
        \/ DropData(t)
        \/ DropDelete(t)
        \/ DropArc(t)

Spec == Init /\ [][Next]_vars

\* SpecDispatch: host functions are registered one at a time, the native
\* engine having room for each, and the threads dispatch them concurrently.
NextDispatch ==
    \E t \in Threads :
        \/ \E r \in Registries, fn \in ConcFns :
              /\ AllIdle
              /\ \E x \in Addrs : ctx[x] = NoCtx
              /\ CallCreate(t, r, fn, FALSE, 0)
        \/ CreateWrite(t)
        \/ CreateInsert(t)
        \/ CreateBinding(t) /\ th'[t].a # 0
        \/ CreateFootprint(t)
        \/ Return(t)
        \/ \E r \in Registries, k \in Keys : CallDispatch(t, r, k, 1, <<>>)
        \/ WrapLookup(t)
        \/ WrapLockFn(t)
        \/ WrapDropRead(t)
        \/ WrapFinish(t)
        \/ WrapReturn(t)

SpecDispatch == Init /\ [][NextDispatch]_vars

\* SpecSeq: one thread creates handles, with the bridge's wrapper or with a
\* wrapper of its own, clones and drops them, gives them to the import
\* module and looks them up by name.
NextSeq ==
    \/ \E d \in BOOLEAN : CallCreate(1, "sync", Ret(<<1>>), d, 0)
    \/ \E nm \in Names : CallCreate(1, "sync", Ret(<<1>>), FALSE, nm)
    \/ CreateWrite(1)
    \/ CreateInsert(1)
    \/ CreateBinding(1)
    \/ CreateFootprint(1)
    \/ Return(1)
    \/ \E d \in BOOLEAN : Top(1) /\ CreateCustomWrapper(1, d)
    \/ CreateImport(1)
    \/ \E x \in ArcIds : Clone(1, x)
    \/ \E x \in ArcIds : CallDrop(1, x)
    \/ DropFootprint(1)
    \/ DropSync(1)
    \/ DropAsync(1)
    \/ DropData(1)
    \/ DropDelete(1)
    \/ DropArc(1)
    \/ \E nm \in Names, x \in ArcIds : AddFunc(1, nm, x)
    \/ \E nm \in Names : GetFunc(1, nm)

SpecSeq == Init /\ [][NextSeq]_vars

\* SpecTramp: one thread registers a closure of any shape, has the native
\* engine call the trampoline with any key, arguments and return buffer,
\* and drops the handle.
NextTramp ==
    \/ \E r \in Registries, fn \in AllFns :
          /\ \A q \in Registries : RegKeys(q) = {}
          /\ CallCreate(1, r, fn, FALSE, 0)
    \/ CreateWrite(1)
    \/ CreateInsert(1)
    \/ CreateBinding(1)
    \/ CreateFootprint(1)
    \/ Return(1)
    \/ \E r \in Registries, k \in Keys, n \in RetLens, input \in ArgLists :
          CallDispatch(1, r, k, n, input)
    \/ WrapLookup(1)
    \/ WrapLockFn(1)
    \/ WrapDropRead(1)
    \/ WrapFinish(1)
    \/ WrapReturn(1)
    \/ \E x \in ArcIds : CallDrop(1, x)
    \/ DropFootprint(1)
    \/ DropSync(1)
    \/ DropAsync(1)
    \/ DropData(1)
    \/ DropDelete(1)
    \/ DropArc(1)

SpecTramp == Init /\ [][NextTramp]_vars

\* SpecModule: one thread creates host functions in both registries, by
\* themselves or in the import module, clones and drops handles, gives them
\* to the import module, looks them up by name, has the engine call the
\* trampolines, and drops the import module; the native engine has room
\* for every function.
NextModule ==
    \/ CreateImport(1)
    \/ \E r \in Registries : CallCreate(1, r, Ret(<<1>>), FALSE, 0)
    \/ \E r \in Registries, nm \in Names : CallCreate(1, r, Ret(<<1>>), FALSE, nm)
    \/ CreateWrite(1)
    \/ CreateInsert(1)
    \/ CreateBinding(1) /\ th'[1].a # 0
    \/ CreateFootprint(1)
    \/ Return(1)
    \/ \E x \in ArcIds : Top(1) /\ Clone(1, x)
    \/ \E x \in ArcIds : CallDrop(1, x)
    \/ DropFootprint(1)
    \/ DropSync(1)
    \/ DropAsync(1)
    \/ DropData(1)
    \/ DropDelete(1)
    \/ DropArc(1)
    \/ \E nm \in Names, x \in ArcIds : Top(1) /\ AddFunc(1, nm, x)
    \/ \E nm \in Names : Top(1) /\ GetFunc(1, nm)
    \/ \E r \in Registries, k \in Keys : CallDispatch(1, r, k, 1, <<>>)
    \/ WrapLookup(1)
    \/ WrapLockFn(1)
    \/ WrapDropRead(1)
    \/ WrapFinish(1)
    \/ WrapReturn(1)
    \/ DropImport(1)
    \/ DrainPop(1)
    \/ DrainDrop(1)
    \/ DrainDone(1)

SpecModule == Init /\ [][NextModule]_vars

\* SpecNested: func is registered, the threads have the engine call it, and
\* each call of its body creates, calls and drops a host function of its
\* own; the native engine has room for every function.
NextNested ==
    \E t \in Threads :
        \/ /\ AllIdle
           /\ \A q \in Registries : RegKeys(q) = {}
           /\ CallCreate(t, "sync", NestFn, FALSE, 0)
        \/ CreateWrite(t)
        \/ CreateInsert(t)
        \/ CreateBinding(t) /\ th'[t].a # 0
        \/ CreateFootprint(t)
        \/ Return(t)
        \/ \E k \in Keys :
              /\ reg["sync"][k].fn = NestFn
              /\ CallDispatch(t, "sync", k, 0, <<>>)
        \/ WrapLookup(t)
        \/ WrapLockFn(t)
        \/ WrapDropRead(t)
        \/ BodyEnter(t)
        \/ BodyCreate(t)
        \/ BodyCall(t)
        \/ BodyDrop(t)
        \/ DropFootprint(t)
        \/ DropSync(t)
        \/ DropAsync(t)
        \/ DropData(t)
        \/ DropDelete(t)
        \/ DropArc(t)
        \/ BodyExit(t)
        \/ WrapFinish(t)
        \/ WrapReturn(t)

SpecNested == Init /\ [][NextNested]_vars

\* One thread calls the constructors, the engine failing or not: functions
\* in both registries, alone or in the import module, a function with a
\* custom wrapper, the import module, a function type; handles are dropped.
NextCtor ==
    \/ \E r \in Registries : CallCreate(1, r, Ret(<<1>>), FALSE, 0)
    \/ \E r \in Registries, nm \in Names : CallCreate(1, r, Ret(<<1>>), FALSE, nm)
    \/ CreateWrite(1)
    \/ CreateInsert(1)
    \/ CreateBinding(1)
    \/ CreateFootprint(1)
    \/ Top(1) /\ CreateCustomWrapper(1, FALSE)
    \/ CreateImport(1)
    \/ FuncTypeCreate(1)
    \/ Return(1)
    \/ \E x \in ArcIds : CallDrop(1, x)
    \/ DropFootprint(1)
    \/ DropSync(1)
    \/ DropAsync(1)
    \/ DropData(1)
    \/ DropDelete(1)
    \/ DropArc(1)

SpecCtor == Init /\ [][NextCtor]_vars

\* One thread fills the import module with a function, tables, memories
\* and globals and looks names up, bound or not; the handles it gets are
\* dropped, and at last the module.
NextLookup ==
    \/ CreateImport(1)
    \/ \E nm \in Names : CallCreate(1, "sync", Ret(<<1>>), FALSE, nm)
    \/ CreateWrite(1)
    \/ CreateInsert(1)
    \/ CreateBinding(1) /\ th'[1].a # 0
    \/ CreateFootprint(1)
    \/ \E kind \in ExportKinds, nm \in Names : AddExport(1, kind, nm)
    \/ \E nm \in Names : Top(1) /\ GetFunc(1, nm)
    \/ \E kind \in ExportKinds, nm \in Names : Top(1) /\ GetExport(1, kind, nm)
    \/ Return(1)
    \/ \E x \in ArcIds : CallDrop(1, x)
    \/ DropFootprint(1)
    \/ DropSync(1)
    \/ DropAsync(1)
    \/ DropData(1)
    \/ DropDelete(1)
    \/ DropArc(1)
    \/ DropImport(1)
    \/ DrainPop(1)
    \/ DrainDrop(1)
    \/ DrainDone(1)

SpecLookup == Init /\ [][NextLookup]_vars

\* The compiler expands one attribute macro on one item.
ExpandMacro(macro, item) ==
    /\ expansion = NoExpansion
    /\ expansion' = [macro |-> macro, item |-> item, out |-> ExpandBy(macro, item)]
    /\ UNCHANGED <<reg, rw, footprints, fpLock, mutex, ctx, heap, arcs, import, th,
                   aborted, outer>>
    /\ UNCHANGED instance

NextMacro ==
    \/ \E macro \in Macros, asyncness \in BOOLEAN, n \in 0..MaxParams,
          p1 \in Pats, p2 \in Pats \ {"receiver"}, t3 \in TypeShapes :
            ExpandMacro(macro, FnItem(asyncness, ItemInputs(n, p1, p2, t3)))
    \/ \E macro \in Macros : ExpandMacro(macro, OtherItem)

SpecMacro == Init /\ [][NextMacro]_vars

\* Threads register one host function at a time, with user data or
\* without, clone its handle and drop the handles, concurrently.
NextCloneDrop ==
    \E t \in Threads :
        \/ \E r \in Registries, d \in BOOLEAN :
              /\ AllIdle
              /\ \A q \in Registries : RegKeys(q) = {}
              /\ CallCreate(t, r, Ret(<<1>>), d, 0)
        \/ CreateWrite(t)
        \/ CreateInsert(t)
        \/ CreateBinding(t) /\ th'[t].a # 0
        \/ CreateFootprint(t)
        \/ Return(t)
        \/ \E x \in ArcIds : Top(t) /\ Clone(t, x)
        \/ \E x \in ArcIds : CallDrop(t, x)
        \/ DropFootprint(t)
        \/ DropSync(t)
        \/ DropAsync(t)
        \/ DropData(t)
        \/ DropDelete(t)
        \/ DropArc(t)

SpecCloneDrop == Init /\ [][NextCloneDrop]_vars

\* One thread is given an Instance of a native module, registered or not,
\* clones it, looks functions up through it and drops the handles.
NextInstance ==
    \/ \E registered \in BOOLEAN, names \in [Names -> 0..1] :
          InstanceNew(1, registered, names)
    \/ InstanceClone(1)
    \/ InstanceDrop(1)
    \/ InstanceDropArc(1)
    \/ \E nm \in Names : InstanceGetFunc(1, nm)
    \/ Return(1)
    \/ \E x \in ArcIds : CallDrop(1, x)
    \/ \E x \in ArcIds : Top(1) /\ Clone(1, x)
    \/ DropArc(1)

SpecInstance == Init /\ [][NextInstance]_vars

\* Threads register host functions with create_sync_func, dispatch keys
\* and drop the handles, concurrently.
NextKeys ==
    \E t \in Threads :
        \/ CallCreate(t, "sync", Ret(<<1>>), FALSE, 0)
        \/ CreateWrite(t)
        \/ CreateInsert(t)
        \/ CreateBinding(t) /\ th'[t].a # 0
        \/ CreateFootprint(t)
        \/ Return(t)
        \/ \E k \in Keys : CallDispatch(t, "sync", k, 1, <<>>)
        \/ WrapLookup(t)
        \/ WrapLockFn(t)
        \/ WrapDropRead(t)
        \/ WrapFinish(t)
        \/ WrapReturn(t)
        \/ \E x \in ArcIds : CallDrop(t, x)
        \/ DropFootprint(t)
        \/ DropSync(t)
        \/ DropAsync(t)
        \/ DropData(t)
        \/ DropDelete(t)
        \/ DropArc(t)

\* a step of the retry loop that a fair rng.gen() gives in the end: the key
\* drawn is not in the registry, or the key is inserted
FairDraw(t) ==
    /\ CreateInsert(t)
    /\ th'[t].pc = "c_bind" \/ ~contains_key(th[t].r, th'[t].key)

\* the same threads, the thread in the retry loop running and its draws fair
SpecKeys == Init /\ [][NextKeys]_vars /\ \A t \in Threads : WF_vars(FairDraw(t))

\* The thread of SpecTramp, which can also register a closure whose body
\* registers, calls and drops a host function of its own.
NextTrampBody ==
    \/ NextTramp
    \/ /\ \A q \in Registries : RegKeys(q) = {}
       /\ CallCreate(1, "sync", NestFn, FALSE, 0)
    \/ BodyEnter(1)
    \/ BodyCreate(1)
    \/ BodyCall(1)
    \/ BodyDrop(1)
    \/ BodyExit(1)

SpecTrampBody == Init /\ [][NextTrampBody]_vars

\* the functions the native engine can call: a handle that owns them is
\* alive and no teardown of theirs has begun
Callable ==
    {b \in Addrs :
        /\ ctx[b] # NoCtx
        /\ \E x \in LiveArcs : arcs[x].ptr = b /\ ~arcs[x].registered
        /\ \A t \in Threads : th[t].pc \in TeardownPcs => th[t].a # b}

\* func.call(&mut executor, params): the engine calls the wrapper the
\* function was bound with, with the key it was bound with
EngineCall(t) ==
    \E b \in Callable : CallDispatch(t, ctx[b].r, ctx[b].key, 1, <<>>)

\* One thread registers host functions in both registries, has the engine
\* call them and drops the handles.
NextPair ==
    \/ \E r \in Registries : CallCreate(1, r, Ret(<<1>>), FALSE, 0)
    \/ CreateWrite(1)
    \/ CreateInsert(1)
    \/ CreateBinding(1) /\ th'[1].a # 0
    \/ CreateFootprint(1)
    \/ Return(1)
    \/ \E x \in ArcIds : Clone(1, x)
    \/ EngineCall(1)
    \/ WrapLookup(1)
    \/ WrapLockFn(1)
    \/ WrapDropRead(1)
    \/ WrapFinish(1)
    \/ WrapReturn(1)
    \/ \E x \in ArcIds : CallDrop(1, x)
    \/ DropFootprint(1)
    \/ DropSync(1)
    \/ DropAsync(1)
    \/ DropData(1)
    \/ DropDelete(1)
    \/ DropArc(1)

SpecPair == Init /\ [][NextPair]_vars

\* One thread makes the import module, adds functions to it with
\* add_func_new and add_async_func, clones it before or after, and drops
\* the two values in either order.
NextImportClone ==
    \/ CreateImport(1)
    \/ CreateImportOf(1, TRUE)
    \/ \E r \in Registries, nm \in Names : CallCreate(1, r, Ret(<<1>>), FALSE, nm)
    \/ CreateWrite(1)
    \/ CreateInsert(1)
    \/ CreateBinding(1) /\ th'[1].a # 0
    \/ CreateFootprint(1)
    \/ Return(1)
    \/ CloneImport(1)
    \/ DropImportShared(1)
    \/ GluePop(1)
    \/ GlueDrop(1)
    \/ GlueDone(1)
    \/ DropFootprint(1)
    \/ DropSync(1)
    \/ DropAsync(1)
    \/ DropData(1)
    \/ DropDelete(1)
    \/ DropArc(1)
    \/ DropImport(1)
    \/ DrainPop(1)
    \/ DrainDrop(1)
    \/ DrainDone(1)
    \/ \E nm \in Names : Top(1) /\ GetFunc(1, nm)
    \/ \E x \in ArcIds : CallDrop(1, x)

SpecImportClone == Init /\ [][NextImportClone]_vars

\* One thread makes the import module and adds new tables, memories and
\* globals to it, looks them up and drops the module.
NextAddNew ==
    \/ CreateImport(1)
    \/ \E op \in Adders, nm \in Names : AddNewCreate(1, op, nm)
    \/ AddNewSetData(1)
    \/ AddNewInsert(1)
    \/ AddNewNull(1)
    \/ AddNewEnd(1)
    \/ \E kind \in ExportKinds, nm \in Names : Top(1) /\ GetExport(1, kind, nm)
    \/ Return(1)
    \/ DropImport(1)
    \/ DrainDone(1)

SpecAddNew == Init /\ [][NextAddNew]_vars

\* ---------------------------------------------------------------- claims

\* the closure a dispatching thread holds is the same boxed closure
SameClosure(t, u) ==
    th[t].r = th[u].r /\ th[t].key = th[u].key /\ th[t].clo.gen = th[u].clo.gen

\* C1: a registration inserts under a key that was absent from its registry
\* (so the keys of concurrent registrations differ from each other and from
\* every key already present), it changes no other entry, and an entry
\* leaves a registry only in the removal step of a teardown.
C1_KeysDistinctAndKept ==
    [][ /\ \A t \in Threads :
              (th[t].pc = "c_loop" /\ th'[t].pc = "c_bind") =>
                  /\ ~contains_key(th[t].r, th[t].key)
                  /\ reg'[th[t].r][th[t].key] # NoClo
                  /\ \A r \in Registries, k \in Keys :
                        (r # th[t].r \/ k # th[t].key) => reg'[r][k] = reg[r][k]
        /\ \A r \in Registries, k \in Keys :
              (reg[r][k] # NoClo /\ reg'[r][k] # reg[r][k]) =>
                  /\ reg'[r][k] = NoClo
                  /\ \E t \in Threads :
                        /\ th[t].pc \in {"d_sync", "d_async"}
                        /\ th'[t].pc # th[t].pc
                        /\ th[t].key = k
      ]_vars

\* two registrations under way in one registry hold different keys, both
\* of them in the registry
C1_Witness ==
    \E t \in Threads, u \in Threads :
        /\ t # u
        /\ th[t].pc \in {"c_bind", "c_fp"} /\ th[u].pc \in {"c_bind", "c_fp"}
        /\ th[t].r = th[u].r
        /\ th[t].key # th[u].key
        /\ contains_key(th[t].r, th[t].key) /\ contains_key(th[u].r, th[u].key)

\* C2: the drop of an owning handle while another clone is alive goes
\* straight to the release of its Arc, which changes neither the registries
\* nor the footprint table (nor the native contexts nor the user data); the
\* drop of the last clone enters the teardown, whose removal steps take one
\* entry out of the footprint table and one out of the registry, and when it
\* is over the handle's footprint and key are gone, its context is deleted
\* and its owned user data is freed.
C2_OnlyLastDropTearsDown ==
    [][ /\ \A x \in ArcIds :
              (th[1].pc = "idle" /\ th'[1].pc \notin {"idle", "ret"} /\ th'[1].h = x
                      /\ ~arcs[x].registered) =>
                  /\ IF arcs[x].strong > 1 THEN th'[1].pc = "d_arc" ELSE th'[1].pc = "d_fp"
                  /\ UNCHANGED <<reg, footprints, ctx, heap>>
        /\ (th[1].pc = "d_arc" /\ th'[1].pc = "idle") =>
              UNCHANGED <<reg, footprints, ctx, heap>>
        /\ (th[1].pc = "d_fp" /\ th'[1].pc = "d_sync") =>
              Cardinality({a \in 0..MaxAddr : footprints'[a] # 0})
                  = Cardinality({a \in 0..MaxAddr : footprints[a] # 0}) - 1
        /\ (th[1].pc = "d_sync" /\ th'[1].pc = "d_async") =>
              Cardinality({k \in Keys : reg'["sync"][k] # NoClo})
                  = Cardinality(RegKeys("sync")) - 1
        /\ (th[1].pc = "d_del" /\ th'[1].pc = "d_arc") =>
              /\ footprints'[th[1].a] = 0
              /\ reg'["sync"][th[1].key] = NoClo /\ reg'["async"][th[1].key] = NoClo
              /\ ctx'[th[1].a] = NoCtx
              /\ arcs[th[1].h].data_owner => th[1].data # 0 /\ th[1].data \notin heap'
      ]_vars

\* the last drop of a handle that owns its data has torn the function down:
\* no key, no footprint, no context and no user data are left
C2_Witness ==
    /\ th[1].pc = "d_arc"
    /\ th[1].key # 0
    /\ ~arcs[th[1].h].registered /\ arcs[th[1].h].data_owner
    /\ arcs[th[1].h].strong = 1
    /\ RegKeys("sync") = {}
    /\ \A a \in 0..MaxAddr : footprints[a] = 0
    /\ \A a \in Addrs : ctx[a] = NoCtx
    /\ heap = {}

\* C3: the drop of a handle found by name (registered), last reference or
\* not, never enters the teardown: it only releases its Arc, and changes
\* neither the registries, the footprint table nor the native contexts.
C3_RegisteredNeverTearsDown ==
    /\ [](\A t \in Threads : th[t].pc \in TeardownPcs => ~arcs[th[t].h].registered)
    /\ [][ \A x \in ArcIds :
              (th[1].pc = "idle" /\ th'[1].pc # "idle" /\ th'[1].h = x
                      /\ arcs[x].registered) =>
                  /\ th'[1].pc = "d_arc"
                  /\ UNCHANGED <<reg, footprints, ctx, heap>>
         ]_vars
    /\ [][ (th[1].pc = "d_arc" /\ th'[1].pc = "idle" /\ arcs[th[1].h].registered) =>
              UNCHANGED <<reg, footprints, ctx, heap, import>>
         ]_vars

\* the last reference to a looked-up handle is being dropped, and the
\* function it denotes is still registered and alive
C3_Witness ==
    /\ th[1].pc = "d_arc"
    /\ arcs[th[1].h].registered /\ arcs[th[1].h].strong = 1
    /\ footprints[th[1].a] # 0
    /\ contains_key("sync", footprints[th[1].a])
    /\ ctx[th[1].a] # NoCtx

\* C4: a trampoline whose key is not in its registry returns (WASM, 5): it
\* holds no closure, has written no return slot, and nothing has aborted.
C4_DispatchMiss ==
    [][ \A t \in Threads :
          (th[t].pc = "w_read" /\ th'[t].pc # "w_read"
                  /\ ~contains_key(th[t].r, th[t].key)) =>
              /\ th'[t].pc = "w_ret"
              /\ th'[t].res = [kind |-> "error", cat |-> "WASM", code |-> 5]
              /\ th'[t].clo = NoClo
              /\ th'[t].rbuf = th[t].rbuf
              /\ ~aborted'
      ]_vars

\* a miss on a key that no live function holds, in the async registry
C4_Witness ==
    /\ th[1].pc = "w_ret"
    /\ th[1].clo = NoClo
    /\ th[1].r = "async"
    /\ th[1].res = [kind |-> "error", cat |-> "WASM", code |-> 5]
    /\ th[1].n = 2

\* what the closure a thread has called returns for the thread's arguments
Returned(t) == Invoke(th[t].clo.fn, th[t].args)

\* C5: when a registered synchronous closure returns Ok(values) with as many
\* values as there are return slots, wrap_fn returns success and slot i
\* holds the i-th value; real_add on (1, 2) leaves 3 in the one slot.
C5_RoundTrip ==
    \A t \in Threads :
        (th[t].pc = "w_ret" /\ th[t].r = "sync" /\ th[t].clo # NoClo) =>
            /\ (Returned(t).ok /\ Len(Returned(t).vals) = th[t].n) =>
                  /\ th[t].res = Success
                  /\ Len(th[t].rbuf) = th[t].n
                  /\ \A i \in 1..th[t].n : th[t].rbuf[i] = Returned(t).vals[i]
            /\ (th[t].clo.fn = RealAdd /\ th[t].args = <<1, 2>> /\ th[t].n = 1) =>
                  th[t].res = Success /\ th[t].rbuf = <<3>>

\* real_add was dispatched on (1, 2) with one return slot
C5_Witness ==
    /\ th[1].pc = "w_ret"
    /\ th[1].r = "sync"
    /\ th[1].clo.fn = RealAdd
    /\ th[1].args = <<1, 2>>
    /\ th[1].rbuf = <<3>>
    /\ th[1].res = Success

\* C6: a closure that returns User(c) makes either trampoline return
\* (UserLevelError, c), one that returns Runtime(c) makes it return (WASM, c).
C6_ErrorKinds ==
    \A t \in Threads :
        (th[t].pc = "w_ret" /\ th[t].clo # NoClo /\ th[t].drv) =>
            /\ (~Returned(t).ok /\ Returned(t).err = "user") =>
                  th[t].res = [kind |-> "error", cat |-> "UserLevelError",
                               code |-> Returned(t).code]
            /\ (~Returned(t).ok /\ Returned(t).err = "runtime") =>
                  th[t].res = [kind |-> "error", cat |-> "WASM",
                               code |-> Returned(t).code]

\* the async trampoline has translated User(2)
C6_Witness ==
    /\ th[1].pc = "w_ret"
    /\ th[1].r = "async"
    /\ th[1].clo.fn = UserErr(2)
    /\ th[1].res = [kind |-> "error", cat |-> "UserLevelError", code |-> 2]

\* C7: when the closure returns Ok(values) with fewer or more values than
\* there are return slots, the trampoline does not return: the process is
\* aborted, and no return slot has been written.
C7_ArityMismatchAborts ==
    \A t \in Threads :
        (th[t].pc \in {"w_ret", "aborted"} /\ th[t].clo # NoClo /\ th[t].drv
                /\ Returned(t).ok /\ Len(Returned(t).vals) # th[t].n) =>
            /\ th[t].pc = "aborted"
            /\ aborted
            /\ th[t].res # Success
            /\ \A i \in 1..th[t].n : th[t].rbuf[i] = Untouched

\* three values were returned for two slots
C7_Witness ==
    /\ th[1].pc = "aborted"
    /\ Len(Returned(1).vals) = 3
    /\ th[1].n = 2
    /\ th[1].rbuf = <<Untouched, Untouched>>

\* C8: no two threads run, or hold the lock of, the same boxed closure at
\* once, and a thread that wants a closure another thread runs cannot take
\* its lock.
C8_OneThreadPerClosure ==
    \A t \in Threads, u \in Threads :
        (t # u /\ th[u].pc \in {"w_locked", "w_exec"} /\ SameClosure(t, u)) =>
            /\ th[t].pc \notin {"w_locked", "w_exec"}
            /\ th[t].pc = "w_lock" => ~CanLock(th[t].r, th[t].key, th[t].clo)

\* one thread runs a closure and another waits for the same closure
C8_Witness ==
    \E t \in Threads, u \in Threads :
        /\ t # u
        /\ th[u].pc = "w_exec" /\ th[t].pc = "w_lock"
        /\ SameClosure(t, u)

\* C9: a dispatch that cannot take its closure's lock is kept out by a
\* thread that holds the same closure, never by one that runs another; a
\* thread that runs a closure holds no registry lock; and a dispatch that
\* has returned has the values of its own closure in its return buffer.
C9_DistinctClosuresInParallel ==
    \A t \in Threads :
        /\ (th[t].pc = "w_lock" /\ ~CanLock(th[t].r, th[t].key, th[t].clo)) =>
              \E u \in Threads :
                  u # t /\ th[u].pc \in {"w_locked", "w_exec"} /\ SameClosure(t, u)
        /\ th[t].pc = "w_exec" =>
              \A r \in Registries : t \notin rw[r].readers /\ rw[r].writer # t
        /\ (th[t].pc = "w_ret" /\ th[t].clo # NoClo /\ th[t].drv) =>
              th[t].res = Success /\ th[t].rbuf = th[t].clo.fn.vals

\* two threads run two different closures at the same time
C9_Witness ==
    \E t \in Threads, u \in Threads :
        /\ th[t].pc = "w_exec" /\ th[u].pc = "w_exec"
        /\ th[t].clo.fn # th[u].clo.fn
        /\ ~SameClosure(t, u)

\* C10: a thread that waits for or holds the lock of a closure before the
\* call does not hold the read lock of the registry.
C10_ReadReleasedBeforeClosureLock ==
    \A t \in Threads :
        th[t].pc \in {"w_lock", "w_locked"} => t \notin rw[th[t].r].readers

\* C11: a thread that runs the body of a closure (wrap_fn) or drives its
\* future (wrap_async_fn) holds neither the read nor the write lock of a
\* closure registry, nor the lock of the footprint table.
C11_NoRegistryLockInClosure ==
    \A t \in Threads :
        th[t].pc = "w_exec" =>
            /\ \A r \in Registries : t \notin rw[r].readers /\ rw[r].writer # t
            /\ fpLock # t

\* a future is being driven while a registration holds the write lock of
\* the registry the closure was found in
C11_Witness ==
    \E t \in Threads, u \in Threads :
        /\ th[t].pc = "w_exec" /\ th[t].r = "async"
        /\ th[u].pc = "c_loop" /\ th[u].r = "async"
        /\ rw["async"].writer = u

\* C12: the registration that the body of a dispatched closure makes is
\* never kept out of the registry by a lock whose holder itself waits for
\* the closure lock held for the outer dispatch (in such a state neither
\* thread can ever move, and the outer dispatch never returns).
C12_NestedNeverBlocked ==
    \A t \in Threads, u \in Threads :
        (/\ u # t
         /\ outer[t].phase = "call" /\ th[t].pc = "c_write"
         /\ th[u].pc = "w_lock"
         /\ th[u].r = outer[t].fr.r /\ th[u].key = outer[t].fr.key
         /\ th[u].clo.gen = outer[t].fr.clo.gen)
            => u \notin rw[th[t].r].readers

\* no constructor, dispatch or teardown is under way
Quiescent == AllIdle /\ \A t \in Threads : Top(t)

\* the addresses that have a footprint entry, and those whose entry is k
FootprintAddrs == {a \in 0..MaxAddr : footprints[a] # 0}
FootprintsOf(k) == {a \in 0..MaxAddr : footprints[a] = k}

\* C13: when no constructor or teardown is under way, every key of a
\* closure registry is the value of exactly one footprint entry, the value
\* of every footprint entry is a key of a closure registry, and the
\* addresses that have a footprint entry are exactly those of the native
\* function contexts that are alive.
C13_FootprintsMatchRegistries ==
    Quiescent =>
        /\ \A r \in Registries, k \in Keys :
              contains_key(r, k) => Cardinality(FootprintsOf(k)) = 1
        /\ \A a \in FootprintAddrs :
              \E r \in Registries : contains_key(r, footprints[a])
        /\ FootprintAddrs = {a \in Addrs : ctx[a] # NoCtx}

\* the footprint entry and the registry entries of the handle a thread
\* tears down are gone
EntriesGone(t) ==
    /\ footprints[th[t].a] = 0
    /\ \A r \in Registries : ~contains_key(r, th[t].key)

\* C14: a teardown frees the owned user data only when the footprint entry
\* and the registry entry are gone and the native context is still alive,
\* and it deletes the native context only when the entries are gone and the
\* owned user data is freed; so a context that a teardown has deleted has
\* neither a footprint entry nor a registry entry.
C14_TeardownOrder ==
    /\ [][ \A t \in Threads :
              /\ (th[t].pc = "d_data" /\ th'[t].pc = "d_del") =>
                    /\ EntriesGone(t)
                    /\ ctx[th[t].a] # NoCtx /\ ctx'[th[t].a] # NoCtx
                    /\ arcs[th[t].h].data_owner =>
                          ctx[th[t].a].data \in heap /\ ctx[th[t].a].data \notin heap'
              /\ (th[t].pc = "d_del" /\ th'[t].pc = "d_arc") =>
                    /\ EntriesGone(t)
                    /\ arcs[th[t].h].data_owner => th[t].data \notin heap
                    /\ ctx[th[t].a] # NoCtx /\ ctx'[th[t].a] = NoCtx
         ]_vars
    /\ [](\A t \in Threads :
            (th[t].pc = "d_arc" /\ th[t].key # 0 /\ ctx[th[t].a] = NoCtx) => EntriesGone(t))

\* the owned user data has been freed, the entries are gone, and the
\* native context is still to be deleted
C14_Witness ==
    /\ th[1].pc = "d_del"
    /\ arcs[th[1].h].data_owner
    /\ th[1].data # 0 /\ th[1].data \notin heap
    /\ EntriesGone(1)
    /\ ctx[th[1].a] # NoCtx

\* C15: a teardown that finds no footprint entry for its native address
\* panics there: the step changes no registry, frees no user data and
\* deletes no native context, and the thread takes no further step of the
\* teardown.
C15_MissingFootprintIsFatal ==
    [][ \A t \in Threads :
          /\ (th[t].pc = "d_fp" /\ th'[t].pc # "d_fp" /\ footprints[th[t].a] = 0) =>
                /\ th'[t].pc = "panicked"
                /\ UNCHANGED <<reg, footprints, heap, ctx, arcs>>
          /\ th[t].pc = "panicked" => th'[t] = th[t]
      ]_vars

\* the teardown of a handle that owns user data has panicked: the data is
\* still allocated and the native context still alive
C15_Witness ==
    /\ th[1].pc = "panicked"
    /\ arcs[th[1].h].data_owner
    /\ ctx[th[1].a] # NoCtx
    /\ ctx[th[1].a].data \in heap

\* every owning handle has been dropped, the import module owns no
\* function, and no operation is under way
OwnersDropped ==
    /\ Quiescent
    /\ import.funcs = {}
    /\ \A x \in LiveArcs : arcs[x].registered

\* C16: once every owning Function handle and the ImportModule that owns
\* functions have been dropped (every drop having run to its end), the sync
\* registry, the async registry and the footprint table are empty.
C16_EmptyAfterLastDrop ==
    OwnersDropped =>
        /\ \A r \in Registries : RegKeys(r) = {}
        /\ FootprintAddrs = {}

\* the import module has been dropped with its functions, a handle that
\* was looked up by name is still alive, and the tables are empty
C16_Witness ==
    /\ OwnersDropped
    /\ import.state = "dropped"
    /\ \E x \in LiveArcs : arcs[x].registered
    /\ \A r \in Registries : RegKeys(r) = {}
    /\ FootprintAddrs = {}

FuncConstructors ==
    {"create_sync_func", "create_async_func", "add_func_new", "add_async_func",
     "create_with_custom_wrapper"}
Constructors == FuncConstructors \cup {"ImportModule::create", "FuncType::create"}

\* C19: a constructor to which the engine returned null returns its typed
\* creation error and makes no handle: Func(FuncError::Create) for the
\* constructors of functions, InstanceError::CreateImportModule for
\* ImportModule::create, FuncTypeCreate for FuncType::create; with a
\* context that is not null it returns a handle whose registered is false.
C19_NullGivesTypedError ==
    \A t \in Threads :
        (th[t].pc = "ret" /\ th[t].op \in Constructors) =>
            IF th[t].a = 0
            THEN /\ th[t].res.kind = "error"
                 /\ th[t].res.cat =
                       (CASE th[t].op \in FuncConstructors -> "Func(FuncError::Create)"
                          [] th[t].op = "ImportModule::create" ->
                                 "Instance(InstanceError::CreateImportModule)"
                          [] th[t].op = "FuncType::create" -> "FuncTypeCreate")
                 /\ th[t].h = 0
                 /\ \A x \in LiveArcs : arcs[x].ptr # 0
                 /\ th[t].op = "ImportModule::create" => import.state = "none"
            ELSE /\ th[t].res.kind = "handle"
                 /\ th[t].res.registered = FALSE
                 /\ th[t].op \in FuncConstructors =>
                       /\ th[t].h \in LiveArcs
                       /\ arcs[th[t].h].ptr = th[t].a
                       /\ ~arcs[th[t].h].registered
                       /\ arcs[th[t].h].strong = 1
                 /\ th[t].op = "ImportModule::create" => import.state = "live"

\* add_async_func returns after the engine has returned null: the module
\* is alive and owns nothing
C19_Witness ==
    /\ th[1].pc = "ret" /\ th[1].op = "add_async_func" /\ th[1].a = 0
    /\ th[1].res.kind = "error"
    /\ import.state = "live" /\ import.funcs = {}
    /\ LiveArcs = {}

\* C20: a lookup by name in a module instance returns a handle whose
\* registered is true when the name is bound (for a function, a handle of
\* its own on the native pointer bound under the name) and the NotFound
\* error of its kind, carrying the name, when it is not; no lookup changes
\* a registry or the footprint table.
C20_LookupByName ==
    /\ [](\A t \in Threads :
             th[t].pc = "ret" =>
               /\ th[t].op = "get_func" =>
                     IF import.names[th[t].name] # 0
                     THEN /\ th[t].res.kind = "handle" /\ th[t].res.registered
                          /\ th[t].h \in LiveArcs
                          /\ arcs[th[t].h] = [ptr |-> import.names[th[t].name],
                                               registered |-> TRUE,
                                               data_owner |-> FALSE, strong |-> 1]
                     ELSE th[t].res = [kind |-> "error",
                                       cat |-> "Instance(InstanceError::NotFoundFunc)",
                                       code |-> th[t].name]
               /\ \A k \in {"Table", "Memory", "Global"} :
                     th[t].op = GetterOf(k) =>
                       IF <<k, th[t].name>> \in import.exports
                       THEN th[t].res.kind = "handle" /\ th[t].res.cat = k
                            /\ th[t].res.registered
                       ELSE th[t].res =
                              [kind |-> "error",
                               cat |-> (CASE k = "Table" -> "Instance(InstanceError::NotFoundTable)"
                                          [] k = "Memory" -> "Instance(InstanceError::NotFoundMem)"
                                          [] k = "Global" -> "Instance(InstanceError::NotFoundGlobal)"),
                               code |-> th[t].name])
    /\ [][ \A t \in Threads :
              (th[t].pc = "idle" /\ th'[t].pc = "ret"
                   /\ th'[t].op \in {GetterOf(k) : k \in ExportKinds}) =>
                 UNCHANGED <<reg, footprints, ctx, heap, import>>
         ]_vars

\* get_func has found the function of the module, which has its key and
\* its footprint entry, next to a table bound under the same name
C20_Witness ==
    /\ th[1].pc = "ret" /\ th[1].op = "get_func"
    /\ th[1].res.kind = "handle"
    /\ arcs[th[1].h].registered
    /\ footprints[arcs[th[1].h].ptr] # 0
    /\ contains_key("sync", footprints[arcs[th[1].h].ptr])
    /\ \E nm \in Names : <<"Table", nm>> \in import.exports

\* C21: add_table_new, add_table_with_data, add_memory_new and
\* add_global_new bind the new native object in the module while the local
\* wrapper still points to it, then null the wrapper's pointer, and the
\* wrapper's destructor requests no deletion: no step requests the
\* deletion of an object that is bound in a module.
C21_TransferredNeverDeleted ==
    [][ /\ \A t \in Threads :
              /\ (th[t].pc = "n_made" /\ th'[t].pc # "n_made") =>
                    /\ th[t].a # 0
                    /\ import'.exports =
                          import.exports \cup {<<KindOfAdder(th[t].op), th[t].name>>}
                    /\ import'.freed = import.freed
              /\ (th[t].pc = "n_added" /\ th'[t].pc # "n_added") =>
                    th'[t].a = 0 /\ import' = import
              /\ (th[t].pc = "n_nulled" /\ th'[t].pc # "n_nulled") =>
                    /\ import' = import
                    /\ <<KindOfAdder(th[t].op), th[t].name>> \in import.exports
                    /\ th'[t].res = OkUnit
        /\ \A x \in import'.freed \ import.freed :
              x \notin import.exports /\ x \notin import'.exports
      ]_vars

\* a table, a memory and a global have been added and the last add has
\* returned Ok(()): the three belong to the module, none was deleted
C21_Witness ==
    /\ th[1].pc = "ret" /\ th[1].op \in Adders /\ th[1].res = OkUnit
    /\ \E nm \in Names :
          {<<"Table", nm>>, <<"Memory", nm>>, <<"Global", nm>>} \subseteq import.exports
    /\ import.freed \cap import.exports = {}

\* C22: wrap_async_fn returns the native error (WASM, 7) and writes no
\* return slot when the fiber driver fails, whatever the future would have
\* given; when the driver succeeds the future's outcome is translated as
\* in wrap_fn: Ok of the right length is success with the values in the
\* slots, User(c) is (UserLevelError, c), Runtime(c) is (WASM, c).
C22_AsyncDriverFailure ==
    \A t \in Threads :
        (th[t].pc = "w_ret" /\ th[t].r = "async" /\ th[t].clo # NoClo) =>
            IF ~th[t].drv
            THEN /\ th[t].res = [kind |-> "error", cat |-> "WASM", code |-> 7]
                 /\ \A i \in 1..th[t].n : th[t].rbuf[i] = Untouched
            ELSE /\ Returned(t).ok =>
                       /\ th[t].res = Success
                       /\ Len(Returned(t).vals) = th[t].n
                       /\ th[t].rbuf = Returned(t).vals
                 /\ (~Returned(t).ok /\ Returned(t).err = "user") =>
                       th[t].res = [kind |-> "error", cat |-> "UserLevelError",
                                    code |-> Returned(t).code]
                 /\ (~Returned(t).ok /\ Returned(t).err = "runtime") =>
                       th[t].res = [kind |-> "error", cat |-> "WASM",
                                    code |-> Returned(t).code]

\* the fiber driver has failed on a future that would have given Ok
C22_Witness ==
    /\ th[1].pc = "w_ret" /\ th[1].r = "async" /\ th[1].clo # NoClo
    /\ ~th[1].drv
    /\ Returned(1).ok /\ Len(Returned(1).vals) = th[1].n /\ th[1].n > 0
    /\ th[1].res = [kind |-> "error", cat |-> "WASM", code |-> 7]

\* the expansion that was made, and the shapes the claims speak of
Expanded(macros) == expansion.macro \in macros /\ expansion.item.is_fn
RefShapes == {"&T", "&mut T", "Option<&T>", "Option<&mut T>"}
PlainPats == {"ident", "wild"}
\* the first two parameters, as far as there are any, are plain
\* identifiers or wildcards
PlainFirstTwo(item) ==
    \A i \in 1..2 : i <= Len(item.inputs) => item.inputs[i].pat \in PlainPats

\* C23: host_function, sys_host_function and sys_host_function_new each
\* generate a function for a user function of 2 parameters and for one of
\* 3 parameters (its third a reference or an Option of one), fail for every
\* other count, and the function they generate has three parameters, the
\* third being the raw data pointer.
C23_SyncRewriterArity ==
    (Expanded({"host_function", "sys_host_function", "sys_host_function_new"})
        /\ PlainFirstTwo(expansion.item)) =>
        LET item == expansion.item
            out == expansion.out
        IN  /\ Len(item.inputs) = 2 => out.kind = "fn"
            /\ (Len(item.inputs) = 3 /\ item.inputs[3].ty \in RefShapes) =>
                  out.kind = "fn"
            /\ Len(item.inputs) \notin {2, 3} => out.kind = "panic"
            /\ out.kind = "fn" =>
                  /\ Len(out.inputs) = 3
                  /\ out.inputs[3].ty = "*mut std::os::raw::c_void"

\* C24 as it is stated: for a user function of 3 parameters, host_function
\* and sys_host_function_new generate a function exactly when the type of
\* the third is a reference or an Option of a reference.
C24_ThirdParamShape_AsStated ==
    (Expanded({"host_function", "sys_host_function_new"})
        /\ Len(expansion.item.inputs) = 3) =>
        /\ expansion.out.kind = "fn" <=> expansion.item.inputs[3].ty \in RefShapes
        /\ expansion.out.kind \in {"fn", "panic"}

\* C24: for a user function of 3 parameters, host_function generates a
\* function exactly when the type of the third is a reference or an Option
\* of a reference; sys_host_function_new does when, moreover, the first
\* two parameters are plain identifiers or wildcards; in every other case
\* the expansion panics and gives no function.
C24_ThirdParamShape ==
    (Expanded({"host_function", "sys_host_function_new"})
        /\ Len(expansion.item.inputs) = 3) =>
        /\ expansion.out.kind = "fn" <=>
              /\ expansion.item.inputs[3].ty \in RefShapes
              /\ expansion.macro = "sys_host_function_new" =>
                    PlainFirstTwo(expansion.item)
        /\ expansion.out.kind \in {"fn", "panic"}
        /\ expansion.out.kind = "fn" => expansion.out.body.cast = "*mut T"

\* sys_host_function_new has made the wrapper of a function whose third
\* parameter is an Option<&mut T>
C24_Witness ==
    /\ expansion.macro = "sys_host_function_new"
    /\ Len(expansion.item.inputs) = 3
    /\ expansion.item.inputs[3].ty = "Option<&mut T>"
    /\ expansion.out.kind = "fn"

\* what C25 says of the function that is generated: not async, the name
\* and the parameters of the user's (the first may have become the frame),
\* the boxed future as return type, the block inside Box::new(async move),
\* a Caller only when the first parameter is named
AsyncWrapperOf(item, out) ==
    /\ out.kind = "fn"
    /\ ~out.asyncness
    /\ out.ident = item.ident
    /\ Len(out.inputs) = 3
    /\ \A i \in 2..3 : out.inputs[i] = item.inputs[i]
    /\ out.inputs[1] = item.inputs[1]
          \/ out.inputs[1].ty = "wasmedge_sdk::CallingFrame"
    /\ out.output = BoxedFuture
    /\ out.body.form = "Box::new(async move { block })"
    /\ out.body.caller => item.inputs[1].pat = "ident"

\* C25 as it is stated: async_host_function and sys_async_host_function
\* fail when the function is not async or has not exactly 3 parameters,
\* and generate the function otherwise.
C25_AsyncRewriter_AsStated ==
    Expanded({"async_host_function", "sys_async_host_function"}) =>
        IF ~expansion.item.asyncness \/ Len(expansion.item.inputs) # 3
        THEN expansion.out.kind = "panic"
        ELSE AsyncWrapperOf(expansion.item, expansion.out)

\* C25: async_host_function and sys_async_host_function fail when the
\* function is not async or has not exactly 3 parameters, and
\* async_host_function fails as well when the first parameter is a receiver
\* or a pattern other than an identifier or a wildcard; otherwise they
\* generate the function: async_host_function makes the first parameter the
\* frame and binds a Caller exactly when it was named,
\* sys_async_host_function keeps the parameters and binds none.
C25_AsyncRewriter ==
    Expanded({"async_host_function", "sys_async_host_function"}) =>
        LET item == expansion.item
            out == expansion.out
        IN  IF \/ ~item.asyncness
               \/ Len(item.inputs) # 3
               \/ /\ expansion.macro = "async_host_function"
                  /\ item.inputs[1].pat \notin PlainPats
            THEN out.kind = "panic"
            ELSE /\ AsyncWrapperOf(item, out)
                 /\ IF expansion.macro = "async_host_function"
                    THEN /\ out.body.caller <=> item.inputs[1].pat = "ident"
                         /\ out.inputs[1].ty = "wasmedge_sdk::CallingFrame"
                    ELSE ~out.body.caller /\ out.inputs = item.inputs

\* async_host_function has expanded an async function of 3 parameters
\* whose first is a wildcard: no Caller is bound
C25_Witness ==
    /\ expansion.macro = "async_host_function"
    /\ expansion.item.asyncness /\ Len(expansion.item.inputs) = 3
    /\ expansion.item.inputs[1].pat = "wild"
    /\ expansion.out.kind = "fn" /\ ~expansion.out.body.caller
    /\ expansion.out.output = BoxedFuture

GluePhases == {"glue", "glued"}

\* C26: dropping an ImportModule value that is the sole holder of its native
\* module requests the deletion of the native module, once, and tears down
\* each function of its list; dropping an ImportModule value while another
\* value shares the native module deletes nothing and removes no registry
\* and no footprint entry.
C26_ImportDrop ==
    [][/\ (import'.deletes # import.deletes =>
               /\ import.deletes = 0
               /\ import'.deletes = 1
               /\ ImportShouldDelete)
       /\ (outer[1].phase = "drained" /\ outer'[1].phase = "drain" =>
               th'[1].pc = "d_fp")
       /\ (outer[1].phase \in GluePhases =>
               /\ UNCHANGED <<reg, footprints, ctx>>
               /\ import'.deletes = import.deletes)]_vars

\* a value with a function of its own was dropped while the other value
\* shares the native module, and the function is still bound in the module
C26_Witness ==
    /\ outer[1].phase \in GluePhases
    /\ import.state = "live"
    /\ th[1].pc = "d_fp"
    /\ \E nm \in Names : import.names[nm] = th[1].a

\* C27: the teardown of one owning handle removes only its own closure: a
\* host function B that is alive, of whichever registry, keeps its key in
\* its registry and its footprint entry through every step that is not of
\* its own teardown, and the engine's call of it finds its closure.
C27_TeardownRemovesOwnOnly ==
    [][/\ \A b \in Callable :
             /\ footprints[b] = ctx[b].key
             /\ contains_key(ctx[b].r, ctx[b].key)
             => /\ footprints'[b] = footprints[b]
                /\ reg'[ctx[b].r][ctx[b].key] = reg[ctx[b].r][ctx[b].key]
       /\ th'[1].pc = "w_ret" => th'[1].res # MissResult]_vars

\* the threads that are inside a dispatch, a registration or a teardown
Busy == {t \in Threads : th[t].pc \notin {"idle", "panicked", "aborted"} \/ ~Top(t)}

\* C28: in no interleaving of threads that dispatch closures, the same one
\* included, register closures, inside or outside a closure, and drop
\* handles is a state reached where operations are under way and no thread
\* can take a step: every dispatch, registration and teardown can go on to
\* its end.
C28_NoDeadlock == (Busy # {} /\ ~aborted) => ENABLED NextNested

\* C29: when the native engine returns a null context, create_sync_func,
\* create_async_func and add_func_new return with the registries and the
\* footprint table as they were before the call (the key that was drawn is
\* in no registry and there is no footprint entry at address 0), and the
\* user data that was boxed for the function is not left allocated.
C29_NullContextLeavesNothing ==
    \A t \in Threads :
        (/\ th[t].pc = "ret"
         /\ th[t].op \in {"create_sync_func", "create_async_func", "add_func_new"}
         /\ th[t].a = 0)
            => /\ ~contains_key(th[t].r, th[t].key)
               /\ footprints[0] = 0
               /\ th[t].owner => th[t].data \notin heap

\* C30: when the clones of one owning handle are dropped concurrently on
\* different threads, one drop and no more performs the teardown: no two
\* threads tear the same function down, and when every handle is dropped
\* the registry and footprint entries are gone, the owned user data is
\* freed and the native context is deleted.
C30_ConcurrentCloneDrops ==
    /\ \A t \in Threads, u \in Threads :
          (t # u /\ th[t].pc \in TeardownPcs /\ th[u].pc \in TeardownPcs)
              => th[t].h # th[u].h
    /\ (Quiescent /\ LiveArcs = {}) =>
          /\ \A r \in Registries : RegKeys(r) = {}
          /\ \A a \in Addrs : footprints[a] = 0 /\ ctx[a] = NoCtx
          /\ heap = {}

\* C31: the native context of a function is deleted at most once: a
\* teardown of a Function, in the drain of its ImportModule or in a later
\* drop of a clone, requests the deletion only of a context that is still
\* there, never of one that the deletion of the native module has freed.
C31_ContextDeletedOnce ==
    [][\A t \in Threads :
          (th[t].pc = "d_del" /\ th'[t].pc = "d_arc" /\ th[t].a # 0)
              => ctx[th[t].a] # NoCtx]_vars

\* C32: in every state the address of each footprint entry is the address
\* of a native function context that is alive (not null, not deleted): no
\* footprint entry outlives its context, the destruction of an ImportModule
\* included.
C32_FootprintsOfLiveContexts ==
    \A a \in 0..MaxAddr : footprints[a] # 0 => (a # 0 /\ ctx[a] # NoCtx)

\* C33: an owning handle that create_sync_func, create_async_func or
\* create_with_custom_wrapper has returned has a footprint entry for its
\* native address when its last clone is dropped: the teardown finds the
\* entry and the drop never ends in the missing-footprint panic.
C33_LastDropFindsFootprint ==
    /\ \A t \in Threads :
          th[t].pc = "d_fp" => footprints[th[t].a] # 0
    /\ \A t \in Threads : th[t].pc # "panicked"

\* C34: the user data block whose address the native module was created
\* with stays allocated while an ImportModule value holds the native module:
\* through every clone and drop of the ImportModule, the block is not freed
\* before the last value is dropped.
C34_HostDataOutlivesModule ==
    (import.state = "live" /\ import.data # 0) => import.data \in heap

\* C35: the drop of one clone of an Instance leaves what the other clones
\* denote as it was: while other clones remain, no step changes the shared
\* native module pointer or deletes the native module, and a lookup made
\* through a remaining clone finds every function the module exports.
C35_DropLeavesOtherClones ==
    [][/\ instance.strong > 1 =>
             /\ instance'.ptr = instance.ptr
             /\ instance'.native = instance.native
       /\ (/\ th[1].pc = "idle" /\ th'[1].pc = "ret"
           /\ th'[1].op = GetterOf("Function")
           /\ instance.names[th'[1].name] # 0)
             => th'[1].res = Handle("Function", TRUE)]_vars

\* C39: the drop of an Instance handle requests the deletion of the native
\* module only when the handle is not registered, is the last clone and the
\* pointer is not null; a registered handle never requests it; through the
\* clones and drops of a handle that is not registered the native module
\* is deleted once, at the last drop.
C39_InstanceDeletedAtLastDrop ==
    /\ [][instance'.deletes # instance.deletes =>
             /\ ~instance.registered
             /\ instance.strong = 1
             /\ instance.ptr # 0
             /\ instance'.deletes = 1
             /\ instance'.native = "deleted"]_vars
    /\ [](instance.registered => instance.deletes = 0 /\ instance.native = "live")
    /\ [](instance.strong > 1 => instance.deletes = 0 /\ instance.native = "live")
    /\ []((instance.native # "none" /\ ~instance.registered /\ instance.strong = 0)
            => instance.deletes = 1 /\ instance.native = "deleted")

\* the last of the clones of an Instance that is not registered has been
\* dropped and the native module has been deleted
C39_Witness ==
    /\ ~instance.registered
    /\ instance.cloned
    /\ instance.strong = 0
    /\ instance.native = "deleted"
    /\ instance.deletes = 1

\* the steps that enter a registry: a lookup, the write lock of a
\* registration, the removal of a key by a teardown
EntersRegistry(u, r) ==
    \/ th[u].pc \in {"w_read", "c_write"} /\ th[u].r = r
    \/ th[u].pc = "d_sync" /\ r = "sync"
    \/ th[u].pc = "d_async" /\ r = "async"

\* C36: key allocation terminates: with fair draws a registration that is
\* in the retry loop comes out of it with its key inserted, a key being
\* absent from the registry; the thread holds the write lock of the registry
\* all through the loop, and meanwhile no other registration, lookup or
\* teardown takes a step on that registry.
C36_KeyAllocationTerminates ==
    /\ \A t \in Threads : (th[t].pc = "c_loop") ~> (th[t].pc = "c_bind")
    /\ [](\A t \in Threads : th[t].pc = "c_loop" => rw[th[t].r].writer = t)
    /\ [][\A t \in Threads, u \in Threads :
            (t # u /\ th[t].pc = "c_loop" /\ EntersRegistry(u, th[t].r))
                => th'[u] = th[u]]_vars

\* a registration is in the retry loop with a key that is in the registry
\* while another thread waits to look a key up in that registry
C36_Witness ==
    \E t \in Threads, u \in Threads :
        /\ th[t].pc = "c_loop" /\ contains_key(th[t].r, th[t].key)
        /\ th[u].pc = "w_read" /\ th[u].r = th[t].r

\* the positions of a thread inside wrap_fn or wrap_async_fn
WrapPcs == {"w_read", "w_lock", "w_locked", "w_exec", "w_ret"}

\* C37: a trampoline changes neither the closure registries nor the
\* footprint table in any of its steps, whatever its outcome, and when it
\* returns a dispatch miss or the error of its closure (user or runtime)
\* every slot of the return buffer is as it was on entry.
C37_DispatchFrame ==
    /\ [][\A t \in Threads :
            th[t].pc \in WrapPcs => UNCHANGED <<reg, footprints>>]_vars
    /\ [](\A t \in Threads :
            (th[t].pc = "w_ret" /\ th[t].res # Success) =>
                \A i \in 1..th[t].n : th[t].rbuf[i] = Untouched)

\* a trampoline with return slots has returned the user error of its
\* closure
C37_Witness ==
    /\ th[1].pc = "w_ret"
    /\ th[1].n > 0
    /\ th[1].clo # NoClo
    /\ th[1].res.cat = "UserLevelError"

\* C38: the removal of a key is idempotent: in a teardown, the removal step
\* of a registry that does not hold the key (the asynchronous registry for
\* the key of a synchronous function) raises no error, leaves both
\* registries as they were, and the teardown goes on.
C38_RemoveAbsentKey ==
    [][\A t \in Threads :
          /\ (th[t].pc = "d_sync" /\ th'[t].pc # "d_sync"
                  /\ ~contains_key("sync", th[t].key))
                => (reg' = reg /\ th'[t].pc = "d_async")
          /\ (th[t].pc = "d_async" /\ th'[t].pc # "d_async"
                  /\ ~contains_key("async", th[t].key))
                => (reg' = reg /\ th'[t].pc = "d_data")]_vars

\* the teardown of a synchronous function has passed the removal from the
\* asynchronous registry, which holds the key of a live function and not
\* the key of the function torn down
C38_Witness ==
    /\ th[1].pc = "d_data"
    /\ ctx[th[1].a].r = "sync"
    /\ \E b \in Addrs :
          /\ ctx[b].r = "async"
          /\ ctx[b].key # th[1].key
          /\ contains_key("async", ctx[b].key)

====
